---- MODULE Spec2Model ----
(***************************************************************************)
(* SpatialSeed: spatial style resolution and keyframe scene assembly.      *)
(*                                                                         *)
(* Numbers.  The program computes with floats; the model uses fixed point: *)
(*   positions, spreads, intensities, style-vector components: 1/1000      *)
(*   times and durations: 1/10000 s (so that round(t, 3) is a real         *)
(*   rounding), angles: 1/10 degree.                                       *)
(***************************************************************************)
EXTENDS Integers, Sequences, FiniteSets, TLC

VARIABLES
    pc,                  \* where the run (or the call) stands
    arg,                 \* the inputs of the run (or of the call)
    ret,                 \* the value a call returned
    run,                 \* which process this is: 1 or 2 (0: no pipeline)
    hashKey,             \* the str-hash key of the running process
    instrument_profiles, \* SPFResolver.instrument_profiles
    style_vector,        \* z
    profiles,            \* {node_id: StyleProfile}
    placements,          \* {node_id: (x, y, z)}
    clamp_log,           \* PlacementEngine.clamp_log
    keyframes,           \* GestureEngine.keyframes
    scene,               \* the document of this run
    scenes,              \* the documents written so far, one per process
    cache                \* InstrumentClassifier's cache directory: {hash: result}

pipeVars == <<run, hashKey, instrument_profiles, style_vector, profiles, placements,
              clamp_log, keyframes, scene, scenes, cache>>

vars == <<pc, arg, ret, pipeVars>>

\* the pipeline's variables in the specifications of single functions
NoPipeline ==
    /\ run = 0
    /\ hashKey = 0
    /\ instrument_profiles = <<>>
    /\ style_vector = <<>>
    /\ profiles = <<>>
    /\ placements = <<>>
    /\ clamp_log = <<>>
    /\ keyframes = <<>>
    /\ scene = <<>>
    /\ scenes = <<>>
    /\ cache = <<>>

----------------------------------------------------------------------------
(* Fixed-point units *)

\* one unit of position / spread / intensity is 1/Milli
Milli == 1000
\* one second is TimeDen time units
TimeDen == 10000

Abs(a) == IF a < 0 THEN -a ELSE a
Max2(a, b) == IF a >= b THEN a ELSE b
Min2(a, b) == IF a <= b THEN a ELSE b
\* a Python list given element by element: evaluated once, when it is built
List(f) == f \o <<>>

Max3(a, b, c) == Max2(a, Max2(b, c))

----------------------------------------------------------------------------
(* gesture_engine.py: Keyframe and the emission-threshold filter *)

\* Keyframe.spread is Optional[float]; this value stands for None
NoneSpread == -1

Keyframe(t, x, y, z, s) == [time |-> t, x |-> x, y |-> y, z |-> z, spread |-> s]

POS_EPSILON == 10
SPREAD_EPSILON == 20

\* (kf.spread or 0)
SpreadOrZero(s) == IF s = NoneSpread THEN 0 ELSE s

\* the test of line 283: the keyframe kf is appended to filtered
Emits(kf, prev) ==
    LET dx == Abs(kf.x - prev.x)
        dy == Abs(kf.y - prev.y)
        dz == Abs(kf.z - prev.z)
        ds == Abs(SpreadOrZero(kf.spread) - SpreadOrZero(prev.spread))
    IN  Max3(dx, dy, dz) >= POS_EPSILON \/ ds >= SPREAD_EPSILON

\* the loop "for kf in keyframes[1:-1]" (1-based: indices 2 .. Len-1)
RECURSIVE FilterLoop(_, _, _)
FilterLoop(kfs, i, filtered) ==
    IF i > Len(kfs) - 1 THEN filtered
    ELSE IF Emits(kfs[i], filtered[Len(filtered)])
         THEN FilterLoop(kfs, i + 1, Append(filtered, kfs[i]))
         ELSE FilterLoop(kfs, i + 1, filtered)

\* mutant: the loop runs over keyframes[1:], so the last keyframe is filtered too
RECURSIVE FilterLoopAll(_, _, _)
FilterLoopAll(kfs, i, filtered) ==
    IF i > Len(kfs) THEN filtered
    ELSE IF Emits(kfs[i], filtered[Len(filtered)])
         THEN FilterLoopAll(kfs, i + 1, Append(filtered, kfs[i]))
         ELSE FilterLoopAll(kfs, i + 1, filtered)

ApplyEmissionThresholdDropsLast(kfs) ==
    IF Len(kfs) <= 2 THEN kfs
    ELSE FilterLoopAll(kfs, 2, <<kfs[1]>>)

\* mutant: each keyframe is compared with the previous input keyframe
RECURSIVE FilterLoopPrevInput(_, _, _)
FilterLoopPrevInput(kfs, i, filtered) ==
    IF i > Len(kfs) - 1 THEN filtered
    ELSE IF Emits(kfs[i], kfs[i - 1])
         THEN FilterLoopPrevInput(kfs, i + 1, Append(filtered, kfs[i]))
         ELSE FilterLoopPrevInput(kfs, i + 1, filtered)

ApplyEmissionThresholdPrevInput(kfs) ==
    IF Len(kfs) <= 2 THEN kfs
    ELSE Append(FilterLoopPrevInput(kfs, 2, <<kfs[1]>>), kfs[Len(kfs)])

ApplyEmissionThreshold(kfs) ==
    IF Len(kfs) <= 2 THEN kfs
    ELSE Append(FilterLoop(kfs, 2, <<kfs[1]>>), kfs[Len(kfs)])

----------------------------------------------------------------------------
(* Specification SpecFilter: _apply_emission_threshold on bounded inputs *)

\* longest keyframe sequence given to the filter
MaxKf == 4

FilterPositions == { <<0, 0, 0>>, <<6, 0, 0>>, <<12, 0, 0>>, <<0, -6, 0>> }
FilterSpreads == { NoneSpread, 15, 30 }

\* the sequences of length n whose i-th keyframe has time i
FilterInputs(n) ==
    { [i \in 1..n |-> Keyframe(i, f[i][1][1], f[i][1][2], f[i][1][3], f[i][2])] :
        f \in [1..n -> FilterPositions \X FilterSpreads] }

InitFilter ==
    /\ pc = "call"
    /\ \E n \in 0..MaxKf : arg \in FilterInputs(n)
    /\ ret = <<>>
    /\ NoPipeline

CallFilter ==
    /\ pc = "call"
    /\ ret' = ApplyEmissionThreshold(arg)
    /\ pc' = "done"
    /\ UNCHANGED <<arg, pipeVars>>

SpecFilter == InitFilter /\ [][CallFilter]_vars

----------------------------------------------------------------------------
(* Claims about the emission-threshold filter (SpecFilter) *)

RECURSIVE IsSubseqFrom(_, _, _, _)
IsSubseqFrom(s, t, i, j) ==
    IF i > Len(s) THEN TRUE
    ELSE IF j > Len(t) THEN FALSE
    ELSE IF s[i] = t[j] THEN IsSubseqFrom(s, t, i + 1, j + 1)
    ELSE IsSubseqFrom(s, t, i, j + 1)

\* s is t with some elements left out, the others in their order
IsSubsequence(s, t) == IsSubseqFrom(s, t, 1, 1)

\* C8 (emission monotonicity): the filter returns a subsequence of its input,
\* no longer than the input, that begins with the input's first keyframe and
\* ends with the input's last keyframe.
EmissionMonotonicity ==
    pc = "done" =>
        /\ IsSubsequence(ret, arg)
        /\ Len(ret) <= Len(arg)
        /\ Len(arg) > 0 =>
            /\ Len(ret) > 0
            /\ ret[1] = arg[1]
            /\ ret[Len(ret)] = arg[Len(arg)]

\* an interior keyframe was dropped, another was kept, and the last keyframe
\* is kept although it is within the thresholds of the one retained before it
EmissionMonotonicityWitness ==
    /\ pc = "done"
    /\ Len(arg) = 4
    /\ Len(ret) = 3
    /\ ~Emits(arg[4], ret[2])

\* the input positions (the model gives the i-th input keyframe time i) that
\* the filter retained
RetainedTimes == { ret[j].time : j \in 1..Len(ret) }

LastRetainedBefore(i) ==
    CHOOSE t \in RetainedTimes :
        /\ t < i
        /\ \A t2 \in RetainedTimes : t2 < i => t2 <= t

\* position delta and spread delta are both under their epsilon
BelowThresholds(kf, kept) ==
    /\ Abs(kf.x - kept.x) < POS_EPSILON
    /\ Abs(kf.y - kept.y) < POS_EPSILON
    /\ Abs(kf.z - kept.z) < POS_EPSILON
    /\ Abs(SpreadOrZero(kf.spread) - SpreadOrZero(kept.spread)) < SPREAD_EPSILON

\* C9 (emission rule): an interior keyframe is dropped if and only if its
\* position delta and its spread delta from the last retained keyframe are
\* both below their epsilon.
EmissionRule ==
    (pc = "done" /\ Len(arg) > 2) =>
        \A i \in 2..(Len(arg) - 1) :
            (i \notin RetainedTimes) <=> BelowThresholds(arg[i], arg[LastRetainedBefore(i)])

\* a slow cumulative drift: an interior keyframe within the thresholds of the
\* previous input keyframe is emitted, because the keyframe before it was dropped
EmissionRuleWitness ==
    /\ pc = "done"
    /\ Len(arg) = 4
    /\ 2 \notin RetainedTimes
    /\ 3 \in RetainedTimes
    /\ BelowThresholds(arg[3], arg[2])
    /\ BelowThresholds(arg[2], arg[1])

----------------------------------------------------------------------------
(* spf.py: InstrumentProfile and the prior table *)

\* InstrumentProfile(...): angles in degrees, the other numbers in 1/1000
InstrumentProfile(cat, rol, az, azs, el, elr, dist, spr, arch, es, fs, bs) ==
    [category |-> cat, role |-> rol,
     base_azimuth_deg |-> az, azimuth_spread_deg |-> azs,
     base_elevation_deg |-> el, elevation_range_deg |-> elr,
     base_distance |-> dist, default_spread |-> spr,
     motion_archetype |-> arch,
     energy_sensitivity |-> es, flux_sensitivity |-> fs,
     brightness_sensitivity |-> bs]

\* a dict is the sequence of its items in insertion order, keys distinct
DictKeys(d) == { d[i].key : i \in 1..Len(d) }
DictGet(d, k) == (CHOOSE i \in 1..Len(d) : d[i].key = k)
DictVal(d, k) == d[DictGet(d, k)].val
\* d[k] = v: a present key keeps its place, a new key goes last
DictSet(d, k, v) ==
    IF k \in DictKeys(d)
    THEN [d EXCEPT ![DictGet(d, k)] = [key |-> k, val |-> v]]
    ELSE Append(d, [key |-> k, val |-> v])

Item(p) == [key |-> <<p.category, p.role>>, val |-> p]

\* SPFResolver._init_default_profiles: the curated table, in insertion order
DefaultProfiles ==
    << Item(InstrumentProfile("vocals", "lead", 0, 15, 5, 10, 650, 120, "gentle_drift", 150, 100, 250)),
       Item(InstrumentProfile("vocals", "unknown", 0, 35, 8, 15, 700, 180, "gentle_drift", 150, 100, 200)),
       Item(InstrumentProfile("bass", "bass", 0, 10, -5, 5, 550, 200, "static", 80, 50, 0)),
       Item(InstrumentProfile("drums", "percussion", 0, 50, 0, 20, 720, 220, "reactive", 350, 500, 150)),
       Item(InstrumentProfile("guitar", "rhythm", -25, 30, 0, 10, 650, 150, "gentle_drift", 200, 150, 200)),
       Item(InstrumentProfile("guitar", "lead", 15, 20, 3, 8, 600, 120, "gentle_drift", 200, 150, 250)),
       Item(InstrumentProfile("keys", "rhythm", 20, 25, 0, 10, 650, 180, "gentle_drift", 150, 100, 200)),
       Item(InstrumentProfile("strings", "rhythm", 0, 55, 10, 20, 750, 280, "gentle_drift", 200, 150, 300)),
       Item(InstrumentProfile("pads", "rhythm", 0, 70, 15, 25, 800, 350, "orbit", 100, 50, 150)),
       Item(InstrumentProfile("fx", "fx", 0, 90, 0, 30, 850, 300, "reactive", 400, 600, 300)),
       Item(InstrumentProfile("other", "unknown", 0, 40, 0, 10, 700, 200, "static", 100, 100, 100)) >>

\* the "ultimate safety net" of get_instrument_profile
SafetyNetProfile ==
    InstrumentProfile("other", "unknown", 0, 30, 0, 10, 700, 200, "static", 100, 100, 100)

\* the loop "for (cat, _rol), profile in items(): if cat == category: return"
RECURSIVE FirstOfCategory(_, _, _)
FirstOfCategory(table, category, i) ==
    IF i > Len(table) THEN 0
    ELSE IF table[i].key[1] = category THEN i
    ELSE FirstOfCategory(table, category, i + 1)

GlobalFallback(table) ==
    IF <<"other", "unknown">> \in DictKeys(table)
    THEN DictVal(table, <<"other", "unknown">>)
    ELSE SafetyNetProfile

\* mutant: the category-with-any-role level is missing
get_instrument_profile_no_category(table, category, role) ==
    IF <<category, role>> \in DictKeys(table)
    THEN DictVal(table, <<category, role>>)
    ELSE GlobalFallback(table)

get_instrument_profile(table, category, role) ==
    IF <<category, role>> \in DictKeys(table)
    THEN DictVal(table, <<category, role>>)
    ELSE LET i == FirstOfCategory(table, category, 1)
         IN  IF i > 0 THEN table[i].val ELSE GlobalFallback(table)

\* load_spf_config on well-formed entries: self.instrument_profiles[key] = ...
\* entry["category"], entry["role"] and InstrumentProfile(**entry) succeed: the
\* entry has exactly the fields of the dataclass (none of them has a default)
WellFormed(entry) == DOMAIN entry = DOMAIN SafetyNetProfile

\* load_spf_config raises (KeyError or TypeError) at its first malformed entry
LoadRaises(entries) == \E i \in 1..Len(entries) : ~ WellFormed(entries[i])

\* self.instrument_profiles after load_spf_config on the entries from the i-th
\* on: the loop stores entry after entry and is left by the exception of the
\* first malformed one
RECURSIVE load_spf_config(_, _, _)
load_spf_config(table, entries, i) ==
    IF i > Len(entries) THEN table
    ELSE IF ~ WellFormed(entries[i]) THEN table
    ELSE load_spf_config(DictSet(table, <<entries[i].category, entries[i].role>>, entries[i]),
                         entries, i + 1)

----------------------------------------------------------------------------
(* Specification SpecLookup: get_instrument_profile on bounded tables *)

\* most entries of a configuration document
MaxEntries == 3

ConfigCategories == { "vocals", "other", "pads" }
ConfigRoles == { "lead", "unknown" }

\* an entry of a configuration document; its numbers tell the entries apart
ConfigEntry(cat, rol) ==
    InstrumentProfile(cat, rol,
                      IF rol = "lead" THEN 90 ELSE -90, 60, 0, 10,
                      IF cat = "pads" THEN 1000 ELSE 900, 250,
                      IF cat = "pads" THEN "orbit" ELSE IF cat = "vocals" THEN "spiral" ELSE "reactive",
                      300, 400, 200)

ConfigDocuments ==
    UNION { { [i \in 1..n |-> ConfigEntry(f[i][1], f[i][2])] :
                f \in [1..n -> ConfigCategories \X ConfigRoles] } : n \in 1..MaxEntries }

\* SPFResolver.__init__: the built-in table, or the one loaded from a document
LookupTables ==
    { DefaultProfiles } \cup { load_spf_config(<<>>, doc, 1) : doc \in ConfigDocuments }

InitLookup ==
    /\ pc = "call"
    /\ arg \in [table : LookupTables,
                category : { "vocals", "other", "pads", "zither" },
                role : { "lead", "unknown", "" }]
    /\ ret = <<>>
    /\ NoPipeline

CallLookup ==
    /\ pc = "call"
    /\ ret' = get_instrument_profile(arg.table, arg.category, arg.role)
    /\ pc' = "done"
    /\ UNCHANGED <<arg, pipeVars>>

SpecLookup == InitLookup /\ [][CallLookup]_vars

----------------------------------------------------------------------------
(* Claims about the prior-table lookup (SpecLookup) *)

TableValues(table) == { table[i].val : i \in 1..Len(table) }

\* C10 (fallback totality): the lookup returns the exact (category, role)
\* entry when the table has it; otherwise an entry of the table whose category
\* is the requested one when there is one; otherwise the global default
\* ("other", "unknown"): the table's entry of that key, or the built-in one.
LookupFallback ==
    pc = "done" =>
        LET t == arg.table
            exact == { p \in TableValues(t) : p.category = arg.category /\ p.role = arg.role }
            sameCategory == { p \in TableValues(t) : p.category = arg.category }
            default == { p \in TableValues(t) : p.category = "other" /\ p.role = "unknown" }
        IN  /\ exact # {} => ret \in exact
            /\ (exact = {} /\ sameCategory # {}) => ret \in sameCategory
            /\ (sameCategory = {} /\ default # {}) => ret \in default
            /\ (sameCategory = {} /\ default = {}) => ret = SafetyNetProfile

\* the second level answers: there is no exact entry, the table holds an entry
\* of the requested category after one of another category and also holds the
\* global default
LookupFallbackWitness ==
    /\ pc = "done"
    /\ <<arg.category, arg.role>> \notin DictKeys(arg.table)
    /\ Len(arg.table) >= 2
    /\ arg.table[1].key[1] # arg.category
    /\ arg.category # "other"
    /\ <<"other", "unknown">> \in DictKeys(arg.table)
    /\ ret.category = arg.category

----------------------------------------------------------------------------
(* Specification SpecLoad: a resolver is constructed, without or with a      *)
(* configuration document, and a document is loaded into a resolver          *)

\* entries of a document: two well-formed ones, one without its role, one
\* with a field that InstrumentProfile does not have
LoadEntries ==
    LET e == ConfigEntry("vocals", "lead")
    IN  { ConfigEntry("pads", "lead"), ConfigEntry("other", "unknown"),
          [k \in DOMAIN e \ { "role" } |-> e[k]],
          e @@ ("gain" :> 1000) }

InitLoad ==
    /\ pc = "new"
    /\ \E n \in 1..MaxEntries : arg \in [1..n -> LoadEntries]
    /\ ret = "none"
    /\ NoPipeline

\* SPFResolver(): the built-in table
ConstructDefault ==
    /\ pc = "new"
    /\ instrument_profiles' = DefaultProfiles
    /\ pc' = "ready"
    /\ UNCHANGED <<arg, ret, run, hashKey, style_vector, profiles, placements, clamp_log,
                   keyframes, scene, scenes, cache>>

\* SPFResolver(path): the table of the document; when the load raises, the
\* constructor raises and there is no resolver
ConstructFromConfig ==
    /\ pc = "new"
    /\ IF LoadRaises(arg)
       THEN /\ instrument_profiles' = <<>>
            /\ ret' = "raised"
            /\ pc' = "failed"
       ELSE /\ instrument_profiles' = load_spf_config(<<>>, arg, 1)
            /\ ret' = "loaded"
            /\ pc' = "ready"
    /\ UNCHANGED <<arg, run, hashKey, style_vector, profiles, placements, clamp_log,
                   keyframes, scene, scenes, cache>>

\* resolver.load_spf_config(path) on a resolver that exists
LoadConfig ==
    /\ pc = "ready"
    /\ instrument_profiles' = load_spf_config(instrument_profiles, arg, 1)
    /\ ret' = IF LoadRaises(arg) THEN "raised" ELSE "loaded"
    /\ pc' = "done"
    /\ UNCHANGED <<arg, run, hashKey, style_vector, profiles, placements, clamp_log,
                   keyframes, scene, scenes, cache>>

NextLoad == ConstructDefault \/ ConstructFromConfig \/ LoadConfig

SpecLoad == InitLoad /\ [][NextLoad]_vars

----------------------------------------------------------------------------
(* Claims about load_spf_config (SpecLoad) *)

\* C22: when the document has a malformed entry, the load fails with an error
\* and the prior table after the failed load equals the table before it: no
\* entry of the document is left in it.
LoadAtomicity ==
    [][ (pc' \in { "failed", "done" } /\ pc' # pc /\ LoadRaises(arg)) =>
            /\ ret' = "raised"
            /\ instrument_profiles' = instrument_profiles ]_vars

----------------------------------------------------------------------------
(* Rounding and ordering helpers *)

\* v rounded to the nearest multiple of q, ties to the even multiple (round())
RoundTo(v, q) ==
    LET lo == (v \div q) * q
        r  == v - lo
    IN  IF 2 * r < q THEN lo
        ELSE IF 2 * r > q THEN lo + q
        ELSE IF (lo \div q) % 2 = 0 THEN lo ELSE lo + q

RECURSIVE Pow10(_)
Pow10(n) == IF n = 0 THEN 1 ELSE 10 * Pow10(n - 1)

\* round(v, digits) of a value held in units of 1/den: a value whose unit
\* divides 10^-digits is already a multiple of it
RoundDecimals(v, den, digits) ==
    IF Pow10(digits) % den = 0 THEN v
    ELSE RoundTo(v, den \div Pow10(digits))

\* A node id is the string "<group>.1"; the model keeps the group number.
\* IdChars(g) is the string as character codes ('.' sorts before the digits).
RECURSIVE Digits(_)
Digits(g) == IF g < 10 THEN <<g>> ELSE Append(Digits(g \div 10), g % 10)

IdChars(g) == Digits(g) \o <<-1, 1>>

\* Python's str "<"
RECURSIVE StrLessFrom(_, _, _)
StrLessFrom(a, b, i) ==
    IF i > Len(a) THEN i <= Len(b)
    ELSE IF i > Len(b) THEN FALSE
    ELSE IF a[i] # b[i] THEN a[i] < b[i]
    ELSE StrLessFrom(a, b, i + 1)

IdLess(g, h) == StrLessFrom(IdChars(g), IdChars(h), 1)

\* sorted(S) of a set of numbers: the i-th is the one with i - 1 smaller ones
SortedNumbers(S) ==
    List([i \in 1..Cardinality(S) |->
            CHOOSE x \in S : Cardinality({ y \in S : y < x }) = i - 1])

\* sorted(nodes, key=lambda n: n["id"]): a stable sort on the id string, so
\* nodes[i] comes after the nodes of smaller id and the earlier ones of its id
IdRank(nodes, i) ==
    Cardinality({ j \in 1..Len(nodes) :
                    \/ IdLess(nodes[j].id, nodes[i].id)
                    \/ nodes[j].id = nodes[i].id /\ j < i }) + 1

SortedById(nodes) ==
    LET rank == List([i \in 1..Len(nodes) |-> IdRank(nodes, i)])
    IN  List([p \in 1..Len(nodes) |-> nodes[CHOOSE i \in 1..Len(nodes) : rank[i] = p]])

----------------------------------------------------------------------------
(* lusid_writer.py: nodes and frame assembly *)

\* LUSIDSceneWriter._audio_object_node (gain is never passed by assemble_frames)
audio_object_node(node_id, x, y, z) ==
    [id |-> node_id, type |-> "audio_object",
     cart |-> << RoundDecimals(x, Milli, 6), RoundDecimals(y, Milli, 6),
                 RoundDecimals(z, Milli, 6) >>]

lfe_node == [id |-> 4, type |-> "LFE"]

DirectSpeaker(g, label, ch, cart) ==
    [id |-> g, type |-> "direct_speaker", speakerLabel |-> label, channelID |-> ch,
     cart |-> cart]

DIRECT_SPEAKER_TEMPLATE ==
    << DirectSpeaker(1, "RC_L", "AC_00011001", <<-1000, 1000, 0>>),
       DirectSpeaker(2, "RC_R", "AC_00011002", <<1000, 1000, 0>>),
       DirectSpeaker(3, "RC_C", "AC_00011003", <<0, 1000, 0>>),
       DirectSpeaker(5, "RC_Lss", "AC_00011005", <<-1000, 0, 0>>),
       DirectSpeaker(6, "RC_Rss", "AC_00011006", <<1000, 0, 0>>),
       DirectSpeaker(7, "RC_Lrs", "AC_00011007", <<-1000, -1000, 0>>),
       DirectSpeaker(8, "RC_Rrs", "AC_00011008", <<1000, -1000, 0>>),
       DirectSpeaker(9, "RC_Lts", "AC_00011009", <<-1000, 0, 1000>>),
       DirectSpeaker(10, "RC_Rts", "AC_0001100a", <<1000, 0, 1000>>) >>

build_bed_nodes == Append(DIRECT_SPEAKER_TEMPLATE, lfe_node)

\* the pairs (t, node) the two loops of assemble_frames visit, in order:
\* "for node_id, keyframes in keyframes_dict.items(): for kf in keyframes"
RECURSIVE Visited(_, _)
Visited(kd, i) ==
    IF i > Len(kd) THEN <<>>
    ELSE [k \in 1..Len(kd[i].val) |->
             LET kf == kd[i].val[k]
             IN  [key |-> RoundDecimals(kf.time, TimeDen, 6),
                  val |-> audio_object_node(kd[i].key, kf.x, kf.y, kf.z)]]
         \o Visited(kd, i + 1)

\* time_to_nodes after "time_to_nodes.setdefault(t, []).append(node)" on every
\* pair: a time enters the dict when it is first visited, and its list holds
\* the nodes visited with it, in order
SetDefaultAppend(vs) ==
    LET firsts == SortedNumbers({ k \in 1..Len(vs) : \A j \in 1..(k - 1) : vs[j].key # vs[k].key })
        NodesAt(t) == LET at == SelectSeq(vs, LAMBDA e : e.key = t)
                      IN  List([q \in 1..Len(at) |-> at[q].val])
    IN  List([p \in 1..Len(firsts) |->
                [key |-> vs[firsts[p]].key, val |-> NodesAt(vs[firsts[p]].key)]])

CollectNodes(kd) == SetDefaultAppend(Visited(kd, 1))

\* "if 0.0 not in time_to_nodes: time_to_nodes[0.0] = []"
EnsureZero(d) ==
    IF 0 \in DictKeys(d) THEN d ELSE Append(d, [key |-> 0, val |-> <<>>])

\* mutant: a frame carries every node collected up to its time (full frames
\* instead of delta frames)
FrameCarriesEarlier(d, t) ==
    LET upto == SelectSeq(d, LAMBDA e : e.key <= t)
        RECURSIVE Concat(_)
        Concat(i) == IF i > Len(upto) THEN <<>> ELSE upto[i].val \o Concat(i + 1)
    IN  [time |-> t,
         nodes |-> (IF t = 0 THEN build_bed_nodes ELSE <<>>) \o SortedById(Concat(1))]

\* mutant: the nodes of a frame keep the order in which they were collected
FrameUnsortedNodes(d, t) ==
    [time |-> t,
     nodes |-> (IF t = 0 THEN build_bed_nodes ELSE <<>>) \o DictVal(d, t)]

\* the body of "for t in sorted(time_to_nodes.keys())": the frame at time t
Frame(d, t) ==
    [time |-> t,
     nodes |-> (IF t = 0 THEN build_bed_nodes ELSE <<>>) \o SortedById(DictVal(d, t))]

\* mutant: the frames follow the insertion order of time_to_nodes (no sorted())
assemble_frames_unsorted(kd) ==
    LET d == EnsureZero(CollectNodes(kd))
    IN  List([i \in 1..Len(d) |-> Frame(d, d[i].key)])

assemble_frames(kd) ==
    LET d == EnsureZero(CollectNodes(kd))
        times == SortedNumbers(DictKeys(d))
    IN  List([i \in 1..Len(times) |-> Frame(d, times[i])])

----------------------------------------------------------------------------
(* Specification SpecAssemble: assemble_frames on bounded keyframe maps *)

\* most objects of a keyframe map, and most keyframes of one object
MaxObjects == 2
MaxSeq == 2

AssembleIds == { 11, 12, 100 }
AssembleTimes == { 0, 20000 }

\* the keyframe sequences of one object: any times, in any order
AssembleSequences ==
    UNION { { [i \in 1..n |-> Keyframe(f[i], 100 * i, 0, 0, NoneSpread)] :
                f \in [1..n -> AssembleTimes] } : n \in 0..MaxSeq }

\* the keys of a map of n objects, in every insertion order
AssembleKeys(n) ==
    { f \in [1..n -> AssembleIds] : \A i, j \in 1..n : i # j => f[i] # f[j] }

\* the map {node_id: [Keyframe, ...]} of the keys ids and the sequences seqs
AssembleMap(ids, seqs) == List([i \in 1..Len(ids) |-> [key |-> ids[i], val |-> seqs[i]]])

InitAssemble ==
    /\ pc = "call"
    /\ \E n \in 0..MaxObjects :
          \E ids \in AssembleKeys(n), seqs \in [1..n -> AssembleSequences] :
              arg = AssembleMap(ids, seqs)
    /\ ret = <<>>
    /\ NoPipeline

CallAssemble ==
    /\ pc = "call"
    /\ ret' = assemble_frames(arg)
    /\ pc' = "done"
    /\ UNCHANGED <<arg, pipeVars>>

SpecAssemble == InitAssemble /\ [][CallAssemble]_vars

----------------------------------------------------------------------------
(* Claims about frame assembly (SpecAssemble) *)

\* C2: the times of the frames returned by assemble_frames are strictly
\* increasing (ascending order, no two frames with the same time).
FrameTimesStrictlyIncreasing ==
    pc = "done" =>
        \A i, j \in 1..Len(ret) : i < j => ret[i].time < ret[j].time

\* a map whose timestamps arrive out of order and more than once: the first
\* object has its keyframe at 2.0 before its keyframe at 0, and a second object
\* has a keyframe at 2.0 as well; the document has the two frames 0 and 2.0
FrameTimesWitness ==
    /\ pc = "done"
    /\ Len(arg) = 2
    /\ Len(arg[1].val) = 2
    /\ arg[1].val[1].time > arg[1].val[2].time
    /\ \E k \in 1..Len(arg[2].val) : arg[2].val[k].time = arg[1].val[1].time
    /\ Len(ret) = 2
    /\ Len(ret[2].nodes) >= 2

\* the rounded timestamps of the keyframes of the object arg[i]
KeyframeTimes(i) ==
    { RoundDecimals(arg[i].val[k].time, TimeDen, 6) : k \in 1..Len(arg[i].val) }

OccurringTimes == UNION { KeyframeTimes(i) : i \in 1..Len(arg) }

\* C11: assemble_frames produces exactly one frame for every distinct rounded
\* timestamp that occurs in some object's sequence (and no frame at any other
\* time, but for the frame at t=0, which always exists), and the audio_object
\* nodes of the frame at time t are exactly the objects that have a keyframe
\* at t: an object with no keyframe at t is absent from the frame.
DeltaFrames ==
    pc = "done" =>
        /\ \A t \in OccurringTimes :
              Cardinality({ i \in 1..Len(ret) : ret[i].time = t }) = 1
        /\ \A i \in 1..Len(ret) :
              /\ ret[i].time \in OccurringTimes \cup { 0 }
              /\ { ret[i].nodes[j].id :
                      j \in { q \in 1..Len(ret[i].nodes) :
                                 ret[i].nodes[q].type = "audio_object" } }
                   = { arg[o].key : o \in { q \in 1..Len(arg) :
                                               ret[i].time \in KeyframeTimes(q) } }

\* two objects with a keyframe at 0, only the first with one at 2.0: the frame
\* at 2.0 holds the first object alone
DeltaFramesWitness ==
    /\ pc = "done"
    /\ Len(arg) = 2
    /\ KeyframeTimes(1) = { 0, 20000 }
    /\ KeyframeTimes(2) = { 0 }
    /\ Len(ret) = 2
    /\ Len(ret[1].nodes) = Len(build_bed_nodes) + 2
    /\ Len(ret[2].nodes) = 1
    /\ ret[2].nodes[1].id = arg[1].key

\* the map arg with its items in the opposite iteration order
ReversedMap == List([i \in 1..Len(arg) |-> arg[Len(arg) + 1 - i]])

\* the ids of the fixed nodes, in their canonical order: the nine direct
\* speakers, then the LFE
CanonicalBedIds == << 1, 2, 3, 5, 6, 7, 8, 9, 10, 4 >>

\* C12: the direct-speaker nodes and the LFE node appear only in the t=0
\* frame, in one fixed canonical order and before every audio_object node; in
\* every frame the audio_object nodes are sorted by object id (as strings), and
\* the frames do not depend on the iteration order of the input map.
NodeOrder ==
    pc = "done" =>
        /\ \A i \in 1..Len(ret) :
              LET nodes == ret[i].nodes
                  fixed == IF ret[i].time = 0 THEN Len(CanonicalBedIds) ELSE 0
              IN  /\ Len(nodes) >= fixed
                  /\ \A j \in 1..Len(nodes) :
                        IF j <= fixed
                        THEN /\ nodes[j].id = CanonicalBedIds[j]
                             /\ nodes[j].type = (IF j = fixed THEN "LFE" ELSE "direct_speaker")
                        ELSE nodes[j].type = "audio_object"
                  /\ \A j \in (fixed + 1)..(Len(nodes) - 1) :
                        ~ IdLess(nodes[j + 1].id, nodes[j].id)
        /\ ret = assemble_frames(ReversedMap)

\* the object 11.1 comes before the object 100.1 in the map and both have a
\* keyframe at 0: the t=0 frame has the ten fixed nodes, then 100.1, then 11.1
NodeOrderWitness ==
    /\ pc = "done"
    /\ Len(arg) = 2
    /\ arg[1].key = 11
    /\ arg[2].key = 100
    /\ ret[1].time = 0
    /\ Len(ret[1].nodes) = Len(CanonicalBedIds) + 2
    /\ ret[1].nodes[Len(CanonicalBedIds) + 1].id = 100
    /\ ret[1].nodes[Len(CanonicalBedIds) + 2].id = 11
    /\ Len(ret) = 2

----------------------------------------------------------------------------
(* Library functions the program calls *)

\* math.sin of an angle in 1/10 degree, in 1/1000 (Bhaskara's approximation,
\* exact at the multiples of 90 degrees, within 0.002 elsewhere)
SinDd(a) ==
    LET m == a % 3600
        x == IF m <= 1800 THEN m ELSE m - 1800
        p == x * (1800 - x)
        v == (400 * p) \div ((4050000 - p) \div 10)
    IN  IF m <= 1800 THEN v ELSE -v

CosDd(a) == SinDd(a + 900)

\* hash(node_id) of a str: salted with a key the interpreter draws when the
\* process starts (PYTHONHASHSEED unset), fixed within the process.  The model
\* mixes the key and the id's group number; any keyed hash would do.
HashBits == 1048576
PyHash(key, g) == ((g * 7919 + key * 104729) * 31 + key * g * 613) % HashBits

\* np.random.RandomState(seed): the generator is its state, and every draw
\* moves it on.  A linear congruential generator stands for the Mersenne
\* Twister: like it, the stream is a fixed function of the seed.
RngSeed(seed) == seed % 65536

RngNext(s) == (25173 * s + 13849) % 65536

\* random_sample() read off the state s the draw has reached, in 1/1000 of [0, 1)
RandomSample(s) == (s * 1000) \div 65536

\* rng.uniform(low, high): low + (high - low) * random_sample(); numpy does
\* not check low <= high
Uniform(s, low, high) == low + ((high - low) * RandomSample(s)) \div 1000

\* rng.uniform(low, high, size=n): the n values and the state after them
RECURSIVE UniformSize(_, _, _, _, _)
UniformSize(out, s, n, low, high) ==
    IF Len(out) = n THEN [values |-> out, state |-> s]
    ELSE UniformSize(Append(out, Uniform(RngNext(s), low, high)), RngNext(s), n, low, high)

\* sorted(list of numbers)
NumberRank(xs, i) ==
    Cardinality({ j \in 1..Len(xs) : xs[j] < xs[i] \/ (xs[j] = xs[i] /\ j < i) }) + 1

SortedList(xs) ==
    LET rank == List([i \in 1..Len(xs) |-> NumberRank(xs, i)])
    IN  List([p \in 1..Len(xs) |-> xs[CHOOSE i \in 1..Len(xs) : rank[i] = p]])

----------------------------------------------------------------------------
(* spf.py: clamp_to_cube *)

\* mutant: only the lower face of the cube is enforced
clamp_to_cube_lower_only(x, y, z) ==
    << Max2(-1000, x), Max2(-1000, y), Max2(-1000, z) >>

clamp_to_cube(x, y, z) ==
    << Max2(-1000, Min2(1000, x)), Max2(-1000, Min2(1000, y)), Max2(-1000, Min2(1000, z)) >>

----------------------------------------------------------------------------
(* gesture_engine.py: the motion generators.                               *)
(* An engine is its duration; key is the hash key of the running process.  *)
(* profile needs motion_type, motion_intensity, spread and mir_coupling;   *)
(* mir has onset_density and spectral_flux_mean (0 when the feature is     *)
(* missing, as .get(name, 0.0) gives).                                     *)

Round3(t) == RoundDecimals(t, TimeDen, 3)

generate_static_gesture(node_id, x, y, z, spread) ==
    << Keyframe(0, x, y, z, spread) >>

\* the loop "while t <= self.duration" of generate_drift_gesture
RECURSIVE DriftLoop(_, _, _, _, _, _, _, _, _)
DriftLoop(kfs, t, duration, interval, period, phase, amp, pos, spread) ==
    IF ~(t <= duration) THEN kfs
    ELSE LET angle == (3600 * t) \div period + phase
             dx == (amp * SinDd(angle)) \div 1000
             dy == (amp * CosDd((angle * 7) \div 10)) \div 2000
             c == clamp_to_cube(pos[1] + dx, pos[2] + dy, pos[3] + 0)
         IN  DriftLoop(Append(kfs, Keyframe(Round3(t), c[1], c[2], c[3], spread)),
                       t + interval, duration, interval, period, phase, amp, pos, spread)

generate_drift_gesture(duration, key, node_id, start_pos, spread, profile, mir) ==
    LET intensity == profile.motion_intensity
        flux_coup == profile.mir_coupling.flux
        stem_flux == mir.spectral_flux_mean
        amp == 50 + (100 * intensity) \div 1000
                  + (((flux_coup * Min2(stem_flux, 1000)) \div 1000) * 50) \div 1000
        period == Max2(4 * TimeDen, 16 * (1000 - intensity) * (TimeDen \div 1000))
        phase == ((PyHash(key, node_id) % 1000) * 3600) \div 1000
        interval == Max2(2 * TimeDen, period \div 4)
        sampled == DriftLoop(<<>>, 0, duration, interval, period, phase, amp, start_pos, spread)
        c == clamp_to_cube(start_pos[1], start_pos[2], start_pos[3])
        kfs == IF sampled[Len(sampled)].time < duration
               THEN Append(sampled, Keyframe(Round3(duration), c[1], c[2], c[3], spread))
               ELSE sampled
    IN  ApplyEmissionThreshold(kfs)

\* the loop "while t <= self.duration" of generate_orbit_gesture
RECURSIVE OrbitLoop(_, _, _, _, _, _, _, _, _, _)
OrbitLoop(kfs, t, duration, interval, period, phase, radius, ry, pos, spread) ==
    IF ~(t <= duration) THEN kfs
    ELSE LET angle == (3600 * t) \div period + phase
             dx == (radius * CosDd(angle)) \div 1000
             dy == (ry * SinDd(angle)) \div 1000
             c == clamp_to_cube(pos[1] + dx, pos[2] + dy, pos[3])
         IN  OrbitLoop(Append(kfs, Keyframe(Round3(t), c[1], c[2], c[3], spread)),
                       t + interval, duration, interval, period, phase, radius, ry, pos, spread)

generate_orbit_gesture(duration, key, node_id, center_pos, spread, profile, mir) ==
    LET intensity == profile.motion_intensity
        radius == 100 + (250 * intensity) \div 1000
        period == Max2(6 * TimeDen, 16 * (1000 - intensity) * (TimeDen \div 1000))
        phase == ((PyHash(key, node_id) % 1000) * 3600) \div 1000
        ry == (radius * 6) \div 10
        interval == period \div 8
    IN  ApplyEmissionThreshold(
            OrbitLoop(<<>>, 0, duration, interval, period, phase, radius, ry, center_pos, spread))

\* the loop "for bt in burst_times": kfs holds the first keyframe and one per
\* burst done, s is the state of rng
RECURSIVE BurstLoop(_, _, _, _, _, _, _)
BurstLoop(kfs, burst_times, s, jitter, intensity, pos, spread) ==
    IF Len(kfs) > Len(burst_times) THEN kfs
    ELSE LET bt == burst_times[Len(kfs)]
             s1 == RngNext(s)
             s2 == RngNext(s1)
             s3 == RngNext(s2)
             s4 == RngNext(s3)
             dx == Uniform(s1, -jitter, jitter)
             dy == Uniform(s2, -jitter, jitter)
             dz == Uniform(s3, -((jitter * 3) \div 10), (jitter * 3) \div 10)
             c == clamp_to_cube(pos[1] + dx, pos[2] + dy, pos[3] + dz)
             sp == Min2(1000, spread + Uniform(s4, 0, (50 * intensity) \div 1000))
         IN  BurstLoop(Append(kfs, Keyframe(Round3(bt), c[1], c[2], c[3],
                                            RoundDecimals(sp, Milli, 4))),
                       burst_times, s4, jitter, intensity, pos, spread)

generate_reactive_gesture(duration, key, node_id, base_pos, spread, profile, mir) ==
    LET intensity == profile.motion_intensity
        energy_coup == profile.mir_coupling.energy
        onset_density == mir.onset_density
        n_bursts == Max2(1, Min2((onset_density * intensity * 2) \div 1000000, 20))
        jitter == 30 + (120 * intensity) \div 1000 + (energy_coup * 50) \div 1000
        \* hash(node_id) % (2**31): the model's hash is below 2**20 already
        seed == PyHash(key, node_id) % HashBits
        draws == UniformSize(<<>>, RngSeed(seed), n_bursts,
                             TimeDen \div 2, duration - TimeDen \div 2)
        burst_times == SortedList(draws.values)
        first == << Keyframe(0, base_pos[1], base_pos[2], base_pos[3], spread) >>
        bursts == BurstLoop(first, burst_times, draws.state, jitter, intensity,
                            base_pos, spread)
    IN  ApplyEmissionThreshold(
            Append(bursts, Keyframe(Round3(duration), base_pos[1], base_pos[2], base_pos[3], spread)))

\* mutant: only the motion type decides; a faint motion is generated anyway
generate_gesture_by_type(duration, key, node_id, placement, profile, mir) ==
    LET motion_type == profile.motion_type
        spread == profile.spread
    IN  IF motion_type \in { "gentle_drift", "drift" }
        THEN generate_drift_gesture(duration, key, node_id, placement, spread, profile, mir)
        ELSE IF motion_type = "orbit"
        THEN generate_orbit_gesture(duration, key, node_id, placement, spread, profile, mir)
        ELSE IF motion_type = "reactive"
        THEN generate_reactive_gesture(duration, key, node_id, placement, spread, profile, mir)
        ELSE generate_static_gesture(node_id, placement[1], placement[2], placement[3], spread)

generate_gesture(duration, key, node_id, placement, profile, mir) ==
    LET motion_type == profile.motion_type
        spread == profile.spread
    IN  IF profile.motion_intensity < 50 \/ motion_type = "static"
        THEN generate_static_gesture(node_id, placement[1], placement[2], placement[3], spread)
        ELSE IF motion_type \in { "gentle_drift", "drift" }
        THEN generate_drift_gesture(duration, key, node_id, placement, spread, profile, mir)
        ELSE IF motion_type = "orbit"
        THEN generate_orbit_gesture(duration, key, node_id, placement, spread, profile, mir)
        ELSE IF motion_type = "reactive"
        THEN generate_reactive_gesture(duration, key, node_id, placement, spread, profile, mir)
        ELSE generate_static_gesture(node_id, placement[1], placement[2], placement[3], spread)

----------------------------------------------------------------------------
(* Bounds and inputs of the specification SpecGesture *)

\* number of hash keys a process may draw
NumHashKeys == 2

HashKeys == 0..(NumHashKeys - 1)

----------------------------------------------------------------------------
(* session.py: allocate_object_ids *)

\* mutant: a stereo stem moves the counter on by one
RECURSIVE AllocateLoopByStem(_, _, _)
AllocateLoopByStem(stems, i, next_group_id) ==
    IF i > Len(stems) THEN <<>>
    ELSE IF stems[i].channels = 1
    THEN << [channels |-> 1, node_ids |-> <<next_group_id>>] >>
           \o AllocateLoopByStem(stems, i + 1, next_group_id + 1)
    ELSE << [channels |-> 2, node_ids |-> <<next_group_id, next_group_id + 1>>] >>
           \o AllocateLoopByStem(stems, i + 1, next_group_id + 1)

\* the loop of allocate_object_ids over stems with 1 or 2 channels
RECURSIVE AllocateLoop(_, _, _)
AllocateLoop(stems, i, next_group_id) ==
    IF i > Len(stems) THEN <<>>
    ELSE IF stems[i].channels = 1
    THEN << [channels |-> 1, node_ids |-> <<next_group_id>>] >>
           \o AllocateLoop(stems, i + 1, next_group_id + 1)
    ELSE << [channels |-> 2, node_ids |-> <<next_group_id, next_group_id + 1>>] >>
           \o AllocateLoop(stems, i + 1, next_group_id + 2)

allocate_object_ids(stems) == AllocateLoop(stems, 1, 11)

RECURSIVE ObjectCount(_)
ObjectCount(stems) ==
    IF stems = <<>> THEN 0 ELSE Len(stems[1].node_ids) + ObjectCount(Tail(stems))

\* SessionManager.create_manifest: the counts and the stems
create_manifest(stems) ==
    [stem_count |-> Len(stems), object_count |-> ObjectCount(stems), stems |-> stems]

----------------------------------------------------------------------------
(* Specification SpecAllocate: ids allocated for a list of stems *)

\* most stems of the list
MaxStemList == 6

InitAllocate ==
    /\ pc = "discovered"
    /\ \E n \in 0..MaxStemList : arg \in [1..n -> [channels : {1, 2}]]
    /\ ret = <<>>
    /\ NoPipeline

CallAllocate ==
    /\ pc = "discovered"
    /\ ret' = create_manifest(allocate_object_ids(arg))
    /\ pc' = "allocated"
    /\ UNCHANGED <<arg, pipeVars>>

SpecAllocate == InitAllocate /\ [][CallAllocate]_vars

----------------------------------------------------------------------------
(* Claims about allocate_object_ids (SpecAllocate) *)

\* the node ids of the stems, in stem order
RECURSIVE AllNodeIds(_)
AllNodeIds(stems) ==
    IF stems = <<>> THEN <<>> ELSE stems[1].node_ids \o AllNodeIds(Tail(stems))

\* C29: the group ids are consecutive from 11 in stem order, one per mono stem
\* and two consecutive per stereo stem; all node ids are pairwise distinct,
\* none is a bed or LFE id (1 to 10), and their number is the manifest's
\* object_count.
ConsecutiveIds ==
    pc = "allocated" =>
        LET ids == AllNodeIds(ret.stems)
        IN  /\ Len(ret.stems) = Len(arg)
            /\ \A i \in 1..Len(arg) : Len(ret.stems[i].node_ids) = arg[i].channels
            /\ \A k \in 1..Len(ids) : ids[k] = 10 + k
            /\ \A k, l \in 1..Len(ids) : k # l => ids[k] # ids[l]
            /\ \A k \in 1..Len(ids) : ids[k] \notin 1..10
            /\ Len(ids) = ret.object_count

\* a stereo stem between two mono stems
ConsecutiveIdsWitness ==
    /\ pc = "allocated"
    /\ arg = << [channels |-> 1], [channels |-> 2], [channels |-> 1] >>
    /\ AllNodeIds(ret.stems) = <<11, 12, 13, 14>>
    /\ ret.object_count = 4

----------------------------------------------------------------------------
(* mir/classify.py: classify_node and classify_all_stems.  The result of  *)
(* the classifiers and fallbacks is the stem's category and role; files is *)
(* the content of the cache directory, {hash: result}.                     *)

\* InstrumentClassifier.classify_node, with load_from_cache and save_to_cache
classify_node(files, node_id, stem, audio_hash) ==
    IF audio_hash # "" /\ audio_hash \in DictKeys(files)
    THEN [result |-> DictVal(files, audio_hash), files |-> files]
    ELSE LET result == [node_id |-> node_id, category |-> stem.category,
                        role_hint |-> stem.role]
         IN  [result |-> result,
              files |-> IF audio_hash # "" THEN DictSet(files, audio_hash, result) ELSE files]

\* the loops of classify_all_stems: stem i, node j of the stem
RECURSIVE ClassifyAllLoop(_, _, _, _, _, _)
ClassifyAllLoop(results, files, stems, manifest, i, j) ==
    IF i > Len(stems) THEN [results |-> results, files |-> files]
    ELSE IF j > Len(manifest[i].node_ids)
    THEN ClassifyAllLoop(results, files, stems, manifest, i + 1, 1)
    ELSE LET node_id == manifest[i].node_ids[j]
             r == classify_node(files, node_id, stems[i], stems[i].hash)
         IN  ClassifyAllLoop(DictSet(results, node_id, r.result), r.files, stems, manifest,
                             i, j + 1)

classify_all_stems(files, stems, manifest) == ClassifyAllLoop(<<>>, files, stems, manifest, 1, 1)

----------------------------------------------------------------------------
(* Specification SpecClassify: sessions classified over one cache directory *)

\* most stems of a session
MaxStems == 2

\* a session of up to MaxStems stems, mono or stereo, whose file has no
\* recorded hash or one of two contents
InitClassify ==
    /\ pc = "session"
    /\ \E n \in 1..MaxStems :
          arg \in [1..n -> [channels : {1, 2}, hash : {"", "a", "b"},
                            category : {"drums"}, role : {"percussion"}]]
    /\ ret = <<>>
    /\ NoPipeline

CallClassifyAll ==
    /\ pc = "session"
    /\ LET r == classify_all_stems(cache, arg, allocate_object_ids(arg))
       IN  /\ ret' = r.results
           /\ cache' = r.files
    /\ pc' = "classified"
    /\ UNCHANGED <<arg, run, hashKey, instrument_profiles, style_vector, profiles, placements,
                   clamp_log, keyframes, scene, scenes>>

\* another session over the same cache directory
NextSession ==
    /\ pc = "classified"
    /\ \E n \in 1..MaxStems :
          arg' \in [1..n -> [channels : {1, 2}, hash : {"", "a", "b"},
                             category : {"drums"}, role : {"percussion"}]]
    /\ ret' = <<>>
    /\ pc' = "session"
    /\ UNCHANGED pipeVars

SpecClassify == InitClassify /\ [][CallClassifyAll \/ NextSession]_vars

----------------------------------------------------------------------------
(* Claims about classify_all_stems (SpecClassify) *)

\* C28: for every node id n of the map returned by classify_all_stems, the
\* result stored under n describes that node: its node_id is n.
ResultDescribesNode ==
    pc = "classified" => \A i \in 1..Len(ret) : ret[i].val.node_id = ret[i].key

----------------------------------------------------------------------------
(* seed_matrix.py *)

Clip(x, lo, hi) == Max2(lo, Min2(hi, x))

\* mutant: the inputs are used as given
map_uv_to_z_unclamped(u, v) ==
    << 300 + (700 * u) \div 1000,
       200 + (800 * u) \div 1000,
       v,
       (u * v) \div 1000,
       1000 - (u * 500) \div 1000,
       500 + (u * 300) \div 1000,
       u,
       (v * 800) \div 1000 >>

\* SeedMatrix.map_uv_to_z (the float32 storage of z is not modelled)
map_uv_to_z(u0, v0) ==
    LET u == Clip(u0, 0, 1000)
        v == Clip(v0, 0, 1000)
    IN  << 300 + (700 * u) \div 1000,
           200 + (800 * u) \div 1000,
           v,
           (u * v) \div 1000,
           1000 - (u * 500) \div 1000,
           500 + (u * 300) \div 1000,
           u,
           (v * 800) \div 1000 >>

Z_DIM == 8

----------------------------------------------------------------------------
(* Specification SpecSeed: calls of map_uv_to_z on one SeedMatrix *)

\* selections inside, on the border of and outside the unit square
UvValues == { -1000, -1, 0, 1, 250, 500, 750, 999, 1000, 1001, 2000 }

InitSeed ==
    /\ pc = "idle"
    /\ arg = <<>>
    /\ ret = <<>>
    /\ NoPipeline

CallMap ==
    /\ \E u, v \in UvValues :
          /\ arg' = <<u, v>>
          /\ ret' = map_uv_to_z(u, v)
    /\ pc' = "mapped"
    /\ UNCHANGED pipeVars

SpecSeed == InitSeed /\ [][CallMap]_vars

----------------------------------------------------------------------------
(* Claims about map_uv_to_z (SpecSeed) *)

\* C26: map_uv_to_z is total and clamps its inputs: for any u, v it returns 8
\* components, equal to the vector for (clamp(u), clamp(v)), and every
\* component is in [0, 1].
MapClampsInputs ==
    pc = "mapped" =>
        /\ Len(ret) = Z_DIM
        /\ ret = map_uv_to_z(Clip(arg[1], 0, 1000), Clip(arg[2], 0, 1000))
        /\ \A i \in 1..Z_DIM : 0 <= ret[i] /\ ret[i] <= 1000

\* a selection outside the unit square on both axes
MapClampsInputsWitness ==
    /\ pc = "mapped"
    /\ arg = <<2000, -1>>
    /\ ret = <<1000, 1000, 0, 0, 500, 800, 1000, 0>>

----------------------------------------------------------------------------
(* spf.py: resolution *)

\* spherical_to_cartesian: angles in 1/10 degree, distance in 1/1000
spherical_to_cartesian(az, el, distance) ==
    << (((distance * CosDd(el)) \div 1000) * SinDd(az)) \div 1000,
       (((distance * CosDd(el)) \div 1000) * CosDd(az)) \div 1000,
       (distance * SinDd(el)) \div 1000 >>

\* mutant: both channels of a pair are moved to the same side
ResolveAzimuthSameSide(base_azimuth, az_spread, stereo_side, nid_hash) ==
    IF stereo_side \in { "left", "right" } THEN base_azimuth + az_spread \div 2
    ELSE base_azimuth + (az_spread * (nid_hash - 500)) \div 1000

\* the azimuth of resolve_style_profile, in 1/10 degree: a stereo channel is
\* moved by half the spread, a single object by its hash
ResolveAzimuth(base_azimuth, az_spread, stereo_side, nid_hash) ==
    IF stereo_side = "left" THEN base_azimuth - az_spread \div 2
    ELSE IF stereo_side = "right" THEN base_azimuth + az_spread \div 2
    ELSE base_azimuth + (az_spread * (nid_hash - 500)) \div 1000

\* mutant: the two downgrade thresholds are exchanged
ResolveMotionTypeSwapped(motion_archetype, motion_intensity) ==
    IF motion_intensity < 100 THEN "static"
    ELSE IF motion_archetype = "orbit" /\ motion_intensity < 250 THEN "gentle_drift"
    ELSE IF motion_archetype = "reactive" /\ motion_intensity < 400 THEN "gentle_drift"
    ELSE motion_archetype

\* the motion type resolution of resolve_style_profile
ResolveMotionType(motion_archetype, motion_intensity) ==
    IF motion_intensity < 100 THEN "static"
    ELSE IF motion_archetype = "orbit" /\ motion_intensity < 400 THEN "gentle_drift"
    ELSE IF motion_archetype = "reactive" /\ motion_intensity < 250 THEN "gentle_drift"
    ELSE motion_archetype

\* SPFResolver.resolve_style_profile; stereo_side is "left", "right" or "none"
resolve_style_profile(table, key, node_id, classification, z, stereo_side) ==
    LET category == classification.category
        role == classification.role_hint
        profile == get_instrument_profile(table, category, role)
        placement_spread == z[1]
        height_usage == z[2]
        motion_intensity == z[3]
        front_back_bias == z[6]
        modulation_sens == z[8]
        az_spread == (profile.azimuth_spread_deg * 10 * placement_spread) \div 1000
        nid_hash == PyHash(key, node_id) % 1000
        az_deg == ResolveAzimuth(profile.base_azimuth_deg * 10, az_spread, stereo_side, nid_hash)
        el_deg == profile.base_elevation_deg * 10
                    + (profile.elevation_range_deg * 10 * height_usage) \div 1000
        dist == Clip((profile.base_distance * (700 + (300 * front_back_bias) \div 1000)) \div 1000,
                     0, 1000)
        s == spherical_to_cartesian(az_deg, el_deg, dist)
        b == clamp_to_cube(s[1], s[2], s[3])
        spread == Clip((profile.default_spread * (500 + (500 * placement_spread) \div 1000)) \div 1000,
                       0, 1000)
        motion_type == ResolveMotionType(profile.motion_archetype, motion_intensity)
    IN  [node_id |-> node_id, category |-> category, role |-> role,
         base_x |-> RoundDecimals(b[1], Milli, 4),
         base_y |-> RoundDecimals(b[2], Milli, 4),
         base_z |-> RoundDecimals(b[3], Milli, 4),
         spread |-> RoundDecimals(spread, Milli, 4),
         motion_intensity |-> RoundDecimals(motion_intensity, Milli, 4),
         motion_type |-> motion_type,
         mir_coupling |-> [energy |-> (profile.energy_sensitivity * modulation_sens) \div 1000,
                           flux |-> (profile.flux_sensitivity * modulation_sens) \div 1000,
                           brightness |-> (profile.brightness_sensitivity * modulation_sens) \div 1000],
         trace |-> [profile_key |-> <<category, role>>, z_snapshot |-> z,
                    azimuth_deg |-> RoundDecimals(az_deg, 10, 2),
                    elevation_deg |-> RoundDecimals(el_deg, 10, 2),
                    distance |-> RoundDecimals(dist, Milli, 3),
                    stereo_side |-> stereo_side]]

\* the stereo_map loop of resolve_all_profiles
RECURSIVE StereoMap(_, _)
StereoMap(stems, i) ==
    IF i > Len(stems) THEN <<>>
    ELSE LET nids == stems[i].node_ids
             rest == StereoMap(stems, i + 1)
         IN  IF stems[i].channels = 2 /\ Len(nids) = 2
             THEN << [key |-> nids[1], val |-> "left"], [key |-> nids[2], val |-> "right"] >> \o rest
             ELSE [j \in 1..Len(nids) |-> [key |-> nids[j], val |-> "none"]] \o rest

\* stereo_map.get(node_id)
StereoSide(stereo_map, node_id) ==
    IF node_id \in DictKeys(stereo_map) THEN DictVal(stereo_map, node_id) ELSE "none"

\* sorted(d.items()) / sorted(d.keys()) of a dict keyed by node id
SortedItems(d) == SortedById(List([i \in 1..Len(d) |-> [id |-> d[i].key, val |-> d[i].val]]))

\* SPFResolver.resolve_all_profiles
resolve_all_profiles(table, key, manifest, classifications, z) ==
    LET stereo_map == StereoMap(manifest, 1)
        items == SortedItems(classifications)
    IN  List([i \in 1..Len(items) |->
                [key |-> items[i].id,
                 val |-> resolve_style_profile(table, key, items[i].id, items[i].val, z,
                                               StereoSide(stereo_map, items[i].id))]])

----------------------------------------------------------------------------
(* placement.py *)

\* mutant: the bias is added to the factor in full
apply_front_back_bias_full(y, front_back_bias) ==
    (y * (500 + front_back_bias)) \div 1000

apply_front_back_bias(y, front_back_bias) ==
    (y * (500 + (500 * front_back_bias) \div 1000)) \div 1000

apply_height_constraint(z, height_usage, no_height) ==
    IF no_height THEN 0 ELSE (z * height_usage) \div 1000

\* mutant: an event is logged only when the x component was clamped
placement_clamp_to_cube_x_only(log, x, y, z) ==
    LET c == << Clip(x, -1000, 1000), Clip(y, -1000, 1000), Clip(z, -1000, 1000) >>
    IN  [pos |-> c,
         log |-> IF x # c[1]
                 THEN Append(log, [original |-> <<x, y, z>>, clamped |-> c])
                 ELSE log]

\* PlacementEngine.clamp_to_cube: the clamped position and the log after it
placement_clamp_to_cube(log, x, y, z) ==
    LET c == << Clip(x, -1000, 1000), Clip(y, -1000, 1000), Clip(z, -1000, 1000) >>
    IN  [pos |-> c,
         log |-> IF x # c[1] \/ y # c[2] \/ z # c[3]
                 THEN Append(log, [original |-> <<x, y, z>>, clamped |-> c])
                 ELSE log]

\* PlacementEngine.compute_placement
compute_placement(log, profile, z) ==
    LET height_usage == z[2]
        front_back_bias == z[6]
        y == apply_front_back_bias(profile.base_y, front_back_bias)
        zz == apply_height_constraint(profile.base_z, height_usage, FALSE)
    IN  placement_clamp_to_cube(log, profile.base_x, y, zz)

\* PlacementEngine.compute_all_placements: the placements and the log
RECURSIVE compute_all_placements(_, _, _, _, _)
compute_all_placements(log, done, profs, z, i) ==
    IF i > Len(profs) THEN [placements |-> done, log |-> log]
    ELSE LET r == compute_placement(log, profs[i].val, z)
         IN  compute_all_placements(r.log, Append(done, [key |-> profs[i].key, val |-> r.pos]),
                                    profs, z, i + 1)

----------------------------------------------------------------------------
(* gesture_engine.py: generate_all_gestures; lusid_writer.py: write_scene *)

\* mir_summary.get("stems", {}).get(node_id, {}).get("features", {})
MirFeatures(mir_summary, node_id) ==
    IF node_id \in DictKeys(mir_summary) THEN DictVal(mir_summary, node_id)
    ELSE [onset_density |-> 0, spectral_flux_mean |-> 0]

\* mutant: the objects draw from one generator, so that what an object gets
\* depends on how many objects were processed before it
RECURSIVE GenerateLoopSharedState(_, _, _, _, _, _, _)
GenerateLoopSharedState(kd, duration, key, order, plcs, profs, mir_summary) ==
    IF order = <<>> THEN kd
    ELSE LET node_id == order[1].id
             kfs == generate_gesture(duration, key + Len(kd), node_id, DictVal(plcs, node_id),
                                     DictVal(profs, node_id), MirFeatures(mir_summary, node_id))
         IN  GenerateLoopSharedState(DictSet(kd, node_id, kfs), duration, key, Tail(order),
                                     plcs, profs, mir_summary)

\* the loop "for node_id in sorted(placements.keys())"; kd is self.keyframes
RECURSIVE GenerateLoop(_, _, _, _, _, _, _)
GenerateLoop(kd, duration, key, order, plcs, profs, mir_summary) ==
    IF order = <<>> THEN kd
    ELSE LET node_id == order[1].id
             kfs == generate_gesture(duration, key, node_id, DictVal(plcs, node_id),
                                     DictVal(profs, node_id), MirFeatures(mir_summary, node_id))
         IN  GenerateLoop(DictSet(kd, node_id, kfs), duration, key, Tail(order),
                          plcs, profs, mir_summary)

generate_all_gestures(kd, duration, key, plcs, profs, mir_summary) ==
    GenerateLoop(kd, duration, key, SortedItems(plcs), plcs, profs, mir_summary)

\* LUSIDSceneWriter.write_scene without metadata: the scene dict
write_scene(sample_rate, kd) ==
    [version |-> "0.5", sampleRate |-> sample_rate, timeUnit |-> "seconds",
     frames |-> assemble_frames(kd)]

----------------------------------------------------------------------------
(* Specification SpecGesture: generate_gesture on bounded inputs *)

GestureProfile(motion_type, intensity) ==
    [motion_type |-> motion_type, motion_intensity |-> intensity, spread |-> 200,
     mir_coupling |-> [energy |-> 280, flux |-> 400, brightness |-> 120]]

\* a single mono object classified (bass, bass), resolved from the built-in
\* table at u = 0.5, v = 0.3 and placed, with no acoustic features, in a scene
\* of ten seconds
ExampleScenario(key) ==
    LET z == map_uv_to_z(500, 300)
        resolved == resolve_style_profile(DefaultProfiles, key, 11,
                                          [category |-> "bass", role_hint |-> "bass"], z, "none")
    IN  [duration |-> 100000, key |-> key, node_id |-> 11,
         placement |-> compute_placement(<<>>, resolved, z).pos,
         profile |-> resolved,
         mir |-> MirFeatures(<<>>, 11)]

\* scene durations: none, under a millisecond, under half a second, one
\* second, just off the millisecond grid on either side, ten seconds
InitGesture ==
    /\ pc = "call"
    /\ \/ arg \in [duration : { 0, 4, 4000, 10000, 79996, 80004, 100000 },
                   key : HashKeys, node_id : {11},
                   placement : { <<0, 0, 0>>, <<950, -950, 1000>> },
                   profile : { GestureProfile(m, i) :
                                 m \in { "static", "gentle_drift", "drift", "orbit",
                                         "reactive", "spiral" },
                                 i \in { 40, 50, 500, 1000 } },
                   mir : [onset_density : { 0, 4000 }, spectral_flux_mean : {500}]]
       \/ \E key \in HashKeys : arg = ExampleScenario(key)
    /\ ret = <<>>
    /\ NoPipeline

CallGesture ==
    /\ pc = "call"
    /\ ret' = generate_gesture(arg.duration, arg.key, arg.node_id, arg.placement,
                               arg.profile, arg.mir)
    /\ pc' = "done"
    /\ UNCHANGED <<arg, pipeVars>>

SpecGesture == InitGesture /\ [][CallGesture]_vars

----------------------------------------------------------------------------
(* Specification SpecEngine: calls on one GestureEngine *)

RECURSIVE TotalKeyframes(_)
TotalKeyframes(kd) ==
    IF kd = <<>> THEN 0 ELSE Len(kd[1].val) + TotalKeyframes(Tail(kd))

\* GestureEngine.get_keyframe_stats; kd is self.keyframes
get_keyframe_stats(kd) ==
    LET total_kf == TotalKeyframes(kd)
        static_obj == Cardinality({ i \in 1..Len(kd) : Len(kd[i].val) = 1 })
        n_obj == IF Len(kd) = 0 THEN 1 ELSE Len(kd)
    IN  [total_objects |-> Len(kd),
         total_keyframes |-> total_kf,
         static_objects |-> static_obj,
         animated_objects |-> Len(kd) - static_obj,
         avg_keyframes_per_object |-> RoundDecimals((total_kf * Milli) \div n_obj, Milli, 1)]

\* GestureEngine(10.0): no keyframes yet
InitEngine ==
    /\ pc = "constructed"
    /\ arg = <<>>
    /\ ret = <<>>
    /\ NoPipeline

\* generate_all_gestures(placements, profiles, {}) for up to MaxObjects
\* objects, in any insertion order, all of one motion type: the loop stores
\* into self.keyframes, which is also what is returned
CallGenerateAll ==
    /\ \E n \in 0..MaxObjects :
       \E ids \in [1..n -> 11..(10 + MaxObjects)] :
       \E m \in {"static", "gentle_drift", "reactive"} :
          /\ \A i, j \in 1..n : i # j => ids[i] # ids[j]
          /\ arg' = [placements |-> List([i \in 1..n |-> [key |-> ids[i], val |-> <<0, 0, 0>>]]),
                     profiles |-> List([i \in 1..n |-> [key |-> ids[i],
                                                         val |-> GestureProfile(m, 500)]])]
          /\ keyframes' = generate_all_gestures(keyframes, 100000, hashKey, arg'.placements,
                                                arg'.profiles, <<>>)
    /\ ret' = keyframes'
    /\ pc' = "returned"
    /\ UNCHANGED <<run, hashKey, instrument_profiles, style_vector, profiles, placements,
                   clamp_log, scene, scenes, cache>>

CallStats ==
    /\ pc = "returned"
    /\ ret' = get_keyframe_stats(keyframes)
    /\ pc' = "stats"
    /\ UNCHANGED <<arg, pipeVars>>

SpecEngine == InitEngine /\ [][CallGenerateAll \/ CallStats]_vars

----------------------------------------------------------------------------
(* Claims about the engine's keyframe map (SpecEngine) *)

\* C27: after any sequence of generate_all_gestures calls on one engine, the
\* map returned by the latest call has exactly the keys of that call's
\* placements, and get_keyframe_stats counts no object of an earlier call.
LatestCallOnly ==
    /\ pc = "returned" => DictKeys(ret) = DictKeys(arg.placements)
    /\ pc = "stats" => ret.total_objects = Len(arg.placements)

----------------------------------------------------------------------------
(* lusid_writer.py: validate_scene.                                         *)
(* A scene is a dict: a function on the keys it has.  An error string is    *)
(* modelled by its fixed text and the values formatted into it.             *)

Error(msg, got, node_id, t) == [msg |-> msg, got |-> got, id |-> node_id, time |-> t]

\* scene.get("version"): None when the key is missing
GetVersion(doc) == IF "version" \in DOMAIN doc THEN doc.version ELSE "None"

\* scene.get("frames", [])
GetFrames(doc) == IF "frames" \in DOMAIN doc THEN doc.frames ELSE <<>>

\* "for key in ("version", "frames"): if key not in doc: ..."
MissingKeyErrors(doc) ==
    LET missing == SelectSeq(<< "version", "frames" >>, LAMBDA k : k \notin DOMAIN doc)
    IN  List([i \in 1..Len(missing) |-> Error("Missing top-level key", missing[i], 0, 0)])

VersionErrors(doc) ==
    IF GetVersion(doc) # "0.5"
    THEN << Error("Expected version '0.5'", GetVersion(doc), 0, 0) >>
    ELSE <<>>

\* "if times != sorted(times)": some frame has a later frame of smaller time
SortedErrors(frames) ==
    IF \E i, j \in 1..Len(frames) : i < j /\ frames[j].time < frames[i].time
    THEN << Error("Frames are not sorted by time", "", 0, 0) >>
    ELSE <<>>

NodeIds(frame) == { frame.nodes[j].id : j \in 1..Len(frame.nodes) }

\* sorted(ids) of a set of id strings
SortedIds(S) ==
    List([i \in 1..Cardinality(S) |->
            CHOOSE x \in S : Cardinality({ y \in S : IdLess(y, x) }) = i - 1])

BED_IDS == << 1, 2, 3, 5, 6, 7, 8, 9, 10 >>

\* the "t=0 checks": everything below "else" needs frames[0]["time"] == 0.0
ZeroFrameErrors(frames) ==
    IF frames[1].time # 0
    THEN << Error("First frame is not at t=0.0", "", 0, 0) >>
    ELSE LET t0_ids == NodeIds(frames[1])
             beds == SelectSeq(BED_IDS, LAMBDA b : b \notin t0_ids)
             all_ao_ids == UNION { { frames[i].nodes[j].id :
                                        j \in { q \in 1..Len(frames[i].nodes) :
                                                   frames[i].nodes[q].type = "audio_object" } } :
                                   i \in 1..Len(frames) }
             missing_at_t0 == SortedIds(all_ao_ids \ t0_ids)
         IN  List([i \in 1..Len(beds) |-> Error("Bed node missing at t=0", "", beds[i], 0)])
             \o (IF 4 \notin t0_ids
                 THEN << Error("LFE node 4.1 missing at t=0", "", 4, 0) >> ELSE <<>>)
             \o List([i \in 1..Len(missing_at_t0) |->
                        Error("audio_object missing at t=0", "", missing_at_t0[i], 0)])

\* the loop over one frame's ids with the set seen
DuplicatesIn(frame) ==
    LET again == SelectSeq(List([j \in 1..Len(frame.nodes) |-> j]),
                           LAMBDA j : \E k \in 1..(j - 1) : frame.nodes[k].id = frame.nodes[j].id)
    IN  List([i \in 1..Len(again) |->
                Error("Duplicate node ID in frame", "", frame.nodes[again[i]].id, frame.time)])

RECURSIVE DuplicateErrors(_, _)
DuplicateErrors(frames, i) ==
    IF i > Len(frames) THEN <<>>
    ELSE DuplicatesIn(frames[i]) \o DuplicateErrors(frames, i + 1)

validate_scene(doc) ==
    LET head == MissingKeyErrors(doc) \o VersionErrors(doc)
        frames == GetFrames(doc)
    IN  IF frames = <<>>
        THEN Append(head, Error("Scene has no frames", "", 0, 0))
        ELSE List(head \o SortedErrors(frames) \o ZeroFrameErrors(frames)
                       \o DuplicateErrors(frames, 1))

----------------------------------------------------------------------------
(* Specification SpecValidate: validate_scene on bounded documents *)

\* most frames of a document
MaxFrames == 2

ValidateVersions == { "0.5", "0.4" }
ValidateTimes == { 0, 10000, 20000 }

\* the node lists of a frame: the fixed nodes and object 11.1; the same without
\* the LFE; without the first direct speaker; one object alone; one object
\* twice; another object; no node
ValidateNodeLists ==
    LET a11 == audio_object_node(11, 0, 1000, 0)
        a12 == audio_object_node(12, 500, 0, 0)
    IN  { Append(build_bed_nodes, a11),
          Append(DIRECT_SPEAKER_TEMPLATE, a11),
          Tail(build_bed_nodes),
          << a11 >>, << a11, a11 >>, << a12 >>, <<>> }

ValidateFrames == { [time |-> t, nodes |-> ns] : t \in ValidateTimes, ns \in ValidateNodeLists }

\* a scene dict with the keys it is given
Document(hasVersion, version, hasFrames, frames) ==
    LET a == [sampleRate |-> 48000, timeUnit |-> "seconds"]
        b == IF hasVersion THEN a @@ ("version" :> version) ELSE a
    IN  IF hasFrames THEN b @@ ("frames" :> frames) ELSE b

InitValidate ==
    /\ pc = "call"
    /\ \E hasVersion \in BOOLEAN, version \in ValidateVersions, n \in 0..MaxFrames :
          \E hasFrames \in BOOLEAN, frames \in [1..n -> ValidateFrames] :
              arg = Document(hasVersion, version, hasFrames, frames)
    /\ ret = <<>>
    /\ NoPipeline

CallValidate ==
    /\ pc = "call"
    /\ ret' = validate_scene(arg)
    /\ pc' = "done"
    /\ UNCHANGED <<arg, pipeVars>>

SpecValidate == InitValidate /\ [][CallValidate]_vars

----------------------------------------------------------------------------
(* Claims about validate_scene (SpecValidate) *)

Reports(msg, node_id, t) ==
    \E e \in 1..Len(ret) : ret[e].msg = msg /\ ret[e].id = node_id /\ ret[e].time = t

\* the ids of the nodes the document has at t=0
IdsAtZero(frames) ==
    UNION { NodeIds(frames[i]) : i \in { q \in 1..Len(frames) : frames[q].time = 0 } }

StrictlyAscending(frames) ==
    \A i \in 1..(Len(frames) - 1) : frames[i].time < frames[i + 1].time

\* C13: validate_scene reports every violated check, whatever other checks
\* fail: a missing required key, a version other than "0.5", frame times not
\* strictly ascending, a first frame that is not at t=0, every bed or LFE id
\* that is missing at t=0, every audio_object id that is missing at t=0, and
\* every id that a frame holds more than once.
EveryViolationReported ==
    pc = "done" =>
        LET frames == GetFrames(arg)
        IN  /\ \A k \in { "version", "frames" } \ DOMAIN arg :
                  \E e \in 1..Len(ret) :
                      ret[e].msg = "Missing top-level key" /\ ret[e].got = k
            /\ GetVersion(arg) # "0.5" => Reports("Expected version '0.5'", 0, 0)
            /\ frames # <<>> =>
                  /\ ~ StrictlyAscending(frames) =>
                        Reports("Frames are not sorted by time", 0, 0)
                  /\ frames[1].time # 0 => Reports("First frame is not at t=0.0", 0, 0)
                  /\ \A b \in 1..Len(BED_IDS) :
                        BED_IDS[b] \notin IdsAtZero(frames) =>
                            Reports("Bed node missing at t=0", BED_IDS[b], 0)
                  /\ 4 \notin IdsAtZero(frames) => Reports("LFE node 4.1 missing at t=0", 4, 0)
                  /\ \A i \in 1..Len(frames) :
                        \A j \in 1..Len(frames[i].nodes) :
                            LET n == frames[i].nodes[j]
                            IN  /\ (n.type = "audio_object" /\ n.id \notin IdsAtZero(frames))
                                      => Reports("audio_object missing at t=0", n.id, 0)
                                /\ (\E k \in 1..(j - 1) : frames[i].nodes[k].id = n.id)
                                      => Reports("Duplicate node ID in frame", n.id, frames[i].time)

\* C14: validate_scene reports a violation for every document whose frame
\* times are not strictly ascending, two consecutive frames with the same time
\* included.
NonAscendingReported ==
    (pc = "done" /\ ~ StrictlyAscending(GetFrames(arg))) =>
        Reports("Frames are not sorted by time", 0, 0)

----------------------------------------------------------------------------
(* Specification Spec: the core pipeline (stages 4 to 8), run by two        *)
(* processes one after the other on the same inputs                         *)

StemKinds ==
    { [channels |-> 1, category |-> "drums", role |-> "percussion"],
      [channels |-> 2, category |-> "pads", role |-> "rhythm"],
      [channels |-> 1, category |-> "zither", role |-> "unknown"] }

Sessions == UNION { [1..n -> StemKinds] : n \in 1..MaxStems }

\* no configuration document (the built-in table), one with a far, wide
\* prior, or one with a prior at the front wall, a little above the floor
PipelineConfigs ==
    { <<>>,
      << ConfigEntry("pads", "lead") >>,
      << InstrumentProfile("pads", "rhythm", 0, 20, 5, 10, 1000, 250, "orbit", 300, 400, 200) >> }

PipelineInputs ==
    [u : {500, 1000}, v : {0, 300, 1000}, stems : Sessions, config : PipelineConfigs,
     duration : { 0, 10000, 80004 }, onset_density : {4000}]

\* what stages 0 to 3 hand to the core
Manifest == allocate_object_ids(arg.stems)

\* the classifier's result for each node: the stem's category and role
RECURSIVE ClassifyStems(_, _, _)
ClassifyStems(stems, manifest, i) ==
    IF i > Len(stems) THEN <<>>
    ELSE [j \in 1..Len(manifest[i].node_ids) |->
            [key |-> manifest[i].node_ids[j],
             val |-> [category |-> stems[i].category, role_hint |-> stems[i].role]]]
         \o ClassifyStems(stems, manifest, i + 1)

Classifications == ClassifyStems(arg.stems, Manifest, 1)

MirSummary ==
    List([i \in 1..Len(Classifications) |->
            [key |-> Classifications[i].key,
             val |-> [onset_density |-> arg.onset_density, spectral_flux_mean |-> 500]]])

Init ==
    /\ pc = "start"
    /\ arg \in PipelineInputs
    /\ ret = <<>>
    /\ run = 1
    /\ hashKey = 0
    /\ instrument_profiles = <<>>
    /\ style_vector = <<>>
    /\ profiles = <<>>
    /\ placements = <<>>
    /\ clamp_log = <<>>
    /\ keyframes = <<>>
    /\ scene = <<>>
    /\ scenes = <<>>
    /\ cache = <<>>

\* the interpreter starts and draws its str-hash key
StartProcess ==
    /\ pc = "start"
    /\ \E k \in HashKeys : hashKey' = k
    /\ pc' = "stage4"
    /\ UNCHANGED <<arg, ret, run, instrument_profiles, style_vector, profiles, placements,
                   clamp_log, keyframes, scene, scenes, cache>>

\* stage 4: SeedMatrix().map_uv_to_z(u, v)
SeedMatrixSelection ==
    /\ pc = "stage4"
    /\ style_vector' = map_uv_to_z(arg.u, arg.v)
    /\ pc' = "stage5"
    /\ UNCHANGED <<arg, ret, run, hashKey, instrument_profiles, profiles, placements,
                   clamp_log, keyframes, scene, scenes, cache>>

\* stage 5: SPFResolver(spf_config_path).resolve_all_profiles(...)
SPFResolution ==
    /\ pc = "stage5"
    /\ instrument_profiles' = IF arg.config = <<>> THEN DefaultProfiles
                              ELSE load_spf_config(<<>>, arg.config, 1)
    /\ profiles' = resolve_all_profiles(instrument_profiles', hashKey, Manifest,
                                        Classifications, style_vector)
    /\ pc' = "stage6"
    /\ UNCHANGED <<arg, ret, run, hashKey, style_vector, placements, clamp_log, keyframes,
                   scene, scenes, cache>>

\* stage 6: PlacementEngine().compute_all_placements(profiles, z)
StaticPlacement ==
    /\ pc = "stage6"
    /\ LET r == compute_all_placements(<<>>, <<>>, profiles, style_vector, 1)
       IN  /\ placements' = r.placements
           /\ clamp_log' = r.log
    /\ pc' = "stage7"
    /\ UNCHANGED <<arg, ret, run, hashKey, instrument_profiles, style_vector, profiles,
                   keyframes, scene, scenes, cache>>

\* stage 7: GestureEngine(duration).generate_all_gestures(placements, profiles, mir)
GestureGeneration ==
    /\ pc = "stage7"
    /\ keyframes' = generate_all_gestures(<<>>, arg.duration, hashKey, placements, profiles,
                                          MirSummary)
    /\ pc' = "stage8"
    /\ UNCHANGED <<arg, ret, run, hashKey, instrument_profiles, style_vector, profiles,
                   placements, clamp_log, scene, scenes, cache>>

\* stage 8: LUSIDSceneWriter(48000).write_scene(keyframes, path), which writes
\* the document, then validate_scene on it; ret is the list of errors (the
\* stage's assertions come after the document is on disk)
SceneAssembly ==
    /\ pc = "stage8"
    /\ scene' = write_scene(48000, keyframes)
    /\ scenes' = Append(scenes, scene')
    /\ ret' = validate_scene(scene')
    /\ pc' = "written"
    /\ UNCHANGED <<arg, run, hashKey, instrument_profiles, style_vector, profiles,
                   placements, clamp_log, keyframes, cache>>

\* the process ends (its objects with it); a second one is run on the same inputs
NextProcess ==
    /\ pc = "written"
    /\ run = 1
    /\ run' = 2
    /\ pc' = "start"
    /\ instrument_profiles' = <<>>
    /\ style_vector' = <<>>
    /\ profiles' = <<>>
    /\ placements' = <<>>
    /\ clamp_log' = <<>>
    /\ keyframes' = <<>>
    /\ scene' = <<>>
    /\ ret' = <<>>
    /\ UNCHANGED <<arg, hashKey, scenes, cache>>

Next ==
    \/ StartProcess
    \/ SeedMatrixSelection
    \/ SPFResolution
    \/ StaticPlacement
    \/ GestureGeneration
    \/ SceneAssembly
    \/ NextProcess

Spec == Init /\ [][Next]_vars

----------------------------------------------------------------------------
(* Specification SpecResolve: stage 5, resolve_all_profiles, on sessions    *)
(* with every motion archetype and style vectors around the thresholds      *)

ResolveKinds ==
    { [channels |-> 1, category |-> "bass", role |-> "bass"],
      [channels |-> 1, category |-> "vocals", role |-> "lead"],
      [channels |-> 2, category |-> "vocals", role |-> "lead"],
      [channels |-> 1, category |-> "pads", role |-> "rhythm"],
      [channels |-> 2, category |-> "pads", role |-> "rhythm"],
      [channels |-> 2, category |-> "drums", role |-> "percussion"],
      [channels |-> 1, category |-> "zither", role |-> "unknown"] }

ResolveSessions == UNION { [1..n -> ResolveKinds] : n \in 1..MaxStems }

\* a configured prior with no azimuth spread: the object is pinned to the mean
PinnedEntry ==
    InstrumentProfile("pads", "rhythm", 30, 0, 0, 10, 800, 250, "reactive", 300, 400, 200)

\* no configuration document, one with a wide orbit prior, one with a pinned
\* reactive prior
ResolveConfigs == { <<>>, << ConfigEntry("pads", "lead") >>, << PinnedEntry >> }

InitResolve ==
    /\ pc = "stage5"
    /\ \E stems \in ResolveSessions, config \in ResolveConfigs :
          arg = [stems |-> stems, config |-> config]
    /\ ret = <<>>
    /\ run = 1
    /\ hashKey \in HashKeys
    /\ instrument_profiles = <<>>
    /\ \E u \in { 0, 1000 }, v \in { 99, 100, 249, 250, 399, 400 } :
          style_vector = map_uv_to_z(u, v)
    /\ profiles = <<>>
    /\ placements = <<>>
    /\ clamp_log = <<>>
    /\ keyframes = <<>>
    /\ scene = <<>>
    /\ scenes = <<>>
    /\ cache = <<>>

SpecResolve == InitResolve /\ [][SPFResolution]_vars

----------------------------------------------------------------------------
(* Specification SpecPlacement: compute_placement on bounded profiles.      *)
(* no_height is the caller's wish to disable height; compute_placement has  *)
(* no parameter that could carry it.                                        *)

InitPlacement ==
    /\ pc = "call"
    /\ arg \in [profile : [base_x : { -500, 500 }, base_y : { -800, 0, 600 },
                           base_z : { -200, 0, 500 }],
                z : { map_uv_to_z(u, v) : u \in { 0, 500, 1000 }, v \in { 0, 300 } },
                no_height : BOOLEAN]
    /\ ret = <<>>
    /\ NoPipeline

CallPlacement ==
    /\ pc = "call"
    /\ LET r == compute_placement(clamp_log, arg.profile, arg.z)
       IN  /\ ret' = r.pos
           /\ clamp_log' = r.log
    /\ pc' = "done"
    /\ UNCHANGED <<arg, run, hashKey, instrument_profiles, style_vector, profiles, placements,
                   keyframes, scene, scenes, cache>>

SpecPlacement == InitPlacement /\ [][CallPlacement]_vars

----------------------------------------------------------------------------
(* Specification SpecClamp: calls of clamp_to_cube on one PlacementEngine *)

\* most events in the clamp log
MaxClampLog == 2

\* positions inside the cube, on its boundary, and outside by one, two or
\* three components
ClampInputs ==
    { <<0, 0, 0>>, <<1000, -1000, 1000>>, <<-300, 999, 0>>,
      <<1200, 0, 0>>, <<0, -1500, 0>>, <<0, 0, 1001>>, <<-1001, 0, 0>>,
      <<-1200, 1500, 0>>, <<0, 1001, -1001>>, <<1200, 1200, 1200>>, <<-2000, 500, 3000>> }

InitClamp ==
    /\ pc = "idle"
    /\ arg = <<>>
    /\ ret = <<>>
    /\ NoPipeline

\* one call engine.clamp_to_cube(x, y, z)
CallClamp ==
    /\ \E pos \in ClampInputs :
          LET r == placement_clamp_to_cube(clamp_log, pos[1], pos[2], pos[3])
          IN  /\ Len(r.log) <= MaxClampLog
              /\ arg' = pos
              /\ ret' = r.pos
              /\ clamp_log' = r.log
    /\ pc' = "done"
    /\ UNCHANGED <<run, hashKey, instrument_profiles, style_vector, profiles, placements,
                   keyframes, scene, scenes, cache>>

SpecClamp == InitClamp /\ [][CallClamp]_vars

----------------------------------------------------------------------------
(* Claims about clamp_to_cube (SpecClamp) *)

OutsideCube(pos) == \E k \in 1..3 : pos[k] < -1000 \/ pos[k] > 1000

\* C21: a call of clamp_to_cube appends one event, with the original and the
\* clamped values, to the log if and only if at least one component lay
\* outside [-1, 1], and leaves the log unchanged otherwise; it always returns,
\* and the position it returns is the componentwise clamp of its argument,
\* whatever the log already contains.
ClampLogged ==
    [][ /\ ret' = [k \in 1..3 |-> IF arg'[k] < -1000 THEN -1000
                                  ELSE IF arg'[k] > 1000 THEN 1000 ELSE arg'[k]]
        /\ IF OutsideCube(arg')
           THEN clamp_log' = Append(clamp_log, [original |-> arg', clamped |-> ret'])
           ELSE clamp_log' = clamp_log ]_vars

\* a call that clamped two components has been followed by a call on a
\* boundary position, which left the one event in the log
ClampLoggedWitness ==
    /\ pc = "done"
    /\ arg = <<1000, -1000, 1000>>
    /\ ret = arg
    /\ clamp_log = << [original |-> <<-1200, 1500, 0>>, clamped |-> <<-1000, 1000, 0>>] >>

----------------------------------------------------------------------------
(* Claims about compute_placement (SpecPlacement) *)

\* C19: a base front coordinate y that is negative (behind) is refined to y
\* multiplied by the front_back_bias itself, while a positive (front) y is
\* treated by another rule, which pushes it forward (toward a floor that the
\* description leaves open): it is refined to no less than y times the bias.
FrontBackBySign ==
    pc = "done" =>
        LET y == arg.profile.base_y
            front_back_bias == arg.z[6]
        IN  /\ y < 0 => ret[2] = Clip((y * front_back_bias) \div 1000, -1000, 1000)
            /\ (y > 0 /\ front_back_bias < 1000) => ret[2] >= (y * front_back_bias) \div 1000

\* C20: the placement accepts a no-height option: with height disabled the
\* refined vertical coordinate is exactly 0, and otherwise it is the profile's
\* base z multiplied by the style vector's height_usage, then clamped.
HeightOption ==
    pc = "done" =>
        IF arg.no_height
        THEN ret[3] = 0
        ELSE ret[3] = Clip((arg.profile.base_z * arg.z[2]) \div 1000, -1000, 1000)

----------------------------------------------------------------------------
(* Claims about profile resolution (SpecResolve) *)

\* the prior that the resolved profile p was resolved from
PriorOf(p) == get_instrument_profile(instrument_profiles, p.category, p.role)

\* C16: the resolved motion type is static whenever the style vector's motion
\* intensity is below 0.10, whatever the prior's archetype; an orbit prior
\* resolves to gentle_drift for 0.10 <= intensity < 0.40 and to orbit from
\* 0.40; a reactive prior resolves to gentle_drift for 0.10 <= intensity < 0.25
\* and to reactive from 0.25; static and gentle_drift priors are unchanged for
\* intensity >= 0.10.
MotionTypeResolution ==
    pc = "stage6" =>
        \A i \in 1..Len(profiles) :
            LET p == profiles[i].val
                archetype == PriorOf(p).motion_archetype
                intensity == style_vector[3]
            IN  /\ intensity < 100 => p.motion_type = "static"
                /\ (archetype = "orbit" /\ 100 <= intensity /\ intensity < 400)
                      => p.motion_type = "gentle_drift"
                /\ (archetype = "orbit" /\ intensity >= 400) => p.motion_type = "orbit"
                /\ (archetype = "reactive" /\ 100 <= intensity /\ intensity < 250)
                      => p.motion_type = "gentle_drift"
                /\ (archetype = "reactive" /\ intensity >= 250) => p.motion_type = "reactive"
                /\ (archetype \in { "static", "gentle_drift" } /\ intensity >= 100)
                      => p.motion_type = archetype

\* at intensity 0.399 an orbit prior has been downgraded to gentle_drift while
\* a reactive prior in the same session stayed reactive
MotionTypeResolutionWitness ==
    /\ pc = "stage6"
    /\ style_vector[3] = 399
    /\ \E i, j \in 1..Len(profiles) :
          /\ PriorOf(profiles[i].val).motion_archetype = "orbit"
          /\ profiles[i].val.motion_type = "gentle_drift"
          /\ PriorOf(profiles[j].val).motion_archetype = "reactive"
          /\ profiles[j].val.motion_type = "reactive"

\* the two-channel stems of the session, as pairs of node ids
StereoPairs ==
    { Manifest[i].node_ids : i \in { q \in 1..Len(Manifest) : Manifest[q].channels = 2 } }

AzimuthOf(node_id) == DictVal(profiles, node_id).trace.azimuth_deg

\* the prior's mean azimuth and its azimuth spread, in 1/10 degree
MeanAzimuth(node_id) == PriorOf(DictVal(profiles, node_id)).base_azimuth_deg * 10
AzimuthSpread(node_id) == PriorOf(DictVal(profiles, node_id)).azimuth_spread_deg * 10

\* the first node of the pair is resolved as left, the second as right, and
\* their azimuths are mean - h and mean + h with 0 <= h <= azimuth_spread / 2
Mirrored(pair) ==
    /\ DictVal(profiles, pair[1]).trace.stereo_side = "left"
    /\ DictVal(profiles, pair[2]).trace.stereo_side = "right"
    /\ MeanAzimuth(pair[1]) = MeanAzimuth(pair[2])
    /\ MeanAzimuth(pair[1]) - AzimuthOf(pair[1]) = AzimuthOf(pair[2]) - MeanAzimuth(pair[2])
    /\ AzimuthOf(pair[1]) <= AzimuthOf(pair[2])
    /\ 2 * (AzimuthOf(pair[2]) - MeanAzimuth(pair[2])) <= AzimuthSpread(pair[2])

----------------------------------------------------------------------------
(* Claims about generate_gesture (SpecGesture) *)

\* C5 (anchor invariant): the sequence returned by generate_gesture is not
\* empty, its first keyframe is at time 0 and no other keyframe is at time 0.
AnchorInvariant ==
    pc = "done" =>
        /\ Len(ret) >= 1
        /\ ret[1].time = 0
        /\ \A i \in 2..Len(ret) : ret[i].time # 0

\* C17: generate_gesture returns exactly one keyframe, at time 0 and at exactly
\* the placement position, whenever the profile's motion type is static or its
\* motion intensity is below 0.05, whatever the motion type; so the object of
\* the example scenario, whose prior archetype is static, has motion type
\* static and exactly one keyframe, at t=0.
StaticGesture ==
    pc = "done" =>
        /\ (arg.profile.motion_type = "static" \/ arg.profile.motion_intensity < 50) =>
              /\ Len(ret) = 1
              /\ ret[1].time = 0
              /\ << ret[1].x, ret[1].y, ret[1].z >> = arg.placement
        /\ arg \in { ExampleScenario(key) : key \in HashKeys } =>
              /\ arg.profile.motion_type = "static"
              /\ Len(ret) = 1
              /\ ret[1].time = 0

\* a reactive profile of intensity 0.04 in a scene of ten seconds, away from
\* the origin: one keyframe
StaticGestureWitness ==
    /\ pc = "done"
    /\ arg.profile.motion_type = "reactive"
    /\ arg.profile.motion_intensity = 40
    /\ arg.duration = 100000
    /\ arg.placement = <<950, -950, 1000>>
    /\ Len(ret) = 1

\* C6: keyframe times are in ascending order and every keyframe time t
\* satisfies 0 <= t <= duration.
TimesAscendingWithinDuration ==
    pc = "done" =>
        /\ \A i, j \in 1..Len(ret) : i < j => ret[i].time <= ret[j].time
        /\ \A i \in 1..Len(ret) : 0 <= ret[i].time /\ ret[i].time <= arg.duration

\* the calls that reach the reactive generator
IsReactiveCall ==
    /\ pc = "done"
    /\ arg.profile.motion_type = "reactive"
    /\ arg.profile.motion_intensity >= 50

\* clamp(onsetDensity x intensity x 2, 1, 20), truncated to an integer
BurstCount(onset_density, intensity) ==
    Max2(1, Min2((onset_density * intensity * 2) \div 1000000, 20))

\* C24 (reactive generator): the returned sequence has a first keyframe at
\* t=0 and a last keyframe at the scene end, both at exactly the base position
\* with the profile's spread, and between them at most
\* clamp(onsetDensity x intensity x 2, 1, 20) burst keyframes.
ReactiveGenerator ==
    IsReactiveCall =>
        /\ Len(ret) >= 2
        /\ ret[1] = Keyframe(0, arg.placement[1], arg.placement[2], arg.placement[3],
                             arg.profile.spread)
        /\ ret[Len(ret)] = Keyframe(arg.duration, arg.placement[1], arg.placement[2],
                                    arg.placement[3], arg.profile.spread)
        /\ Len(ret) - 2 <= BurstCount(arg.mir.onset_density, arg.profile.motion_intensity)
        /\ BurstCount(arg.mir.onset_density, arg.profile.motion_intensity) \in 1..20

\* the calls that reach the drift generator
IsDriftCall ==
    /\ pc = "done"
    /\ arg.profile.motion_type \in {"gentle_drift", "drift"}
    /\ arg.profile.motion_intensity >= 50

\* max(2, period / 4) with period = max(4, 16 x (1 - intensity)), in 1/10000 s
DriftInterval(intensity) ==
    Max2(2 * TimeDen, Max2(4 * TimeDen, 16 * (1000 - intensity) * (TimeDen \div 1000)) \div 4)

\* C25 (drift generator): every keyframe has the placement's z; the samples
\* lie one interval apart, interval = max(2, period / 4) and
\* period = max(4, 16 x (1 - intensity)); the last keyframe is at the scene
\* duration and is appended only when no sample already falls on it.
DriftGenerator ==
    IsDriftCall =>
        LET interval == DriftInterval(arg.profile.motion_intensity)
            n == Len(ret)
        IN  /\ n >= 1
            /\ \A i \in 1..n : ret[i].z = arg.placement[3]
            /\ \A i \in 1..(n - 1) : ret[i].time % interval = 0
            /\ ret[n].time = arg.duration
            /\ \A i \in 1..(n - 1) : ret[i].time # ret[n].time

----------------------------------------------------------------------------
(* Claims about the pipeline (Spec) *)

\* C1 (determinism): two processes run on the same inputs write the same
\* scene document.
Determinism == Len(scenes) = 2 => scenes[1] = scenes[2]

Frames == scene.frames

NodesOfType(frame, type) == { i \in 1..Len(frame.nodes) : frame.nodes[i].type = type }

AudioObjectIds(frame) == { frame.nodes[i].id : i \in NodesOfType(frame, "audio_object") }

\* C15: the document written for the keyframe map of generate_all_gestures has
\* its first frame at t=0, version "0.5" and sampleRate 48000, and
\* validate_scene returns an empty list for it.
SelfValidatingOutput ==
    pc = "written" =>
        /\ Len(Frames) > 0
        /\ Frames[1].time = 0
        /\ scene.version = "0.5"
        /\ scene.sampleRate = 48000
        /\ ret = <<>>

\* C3: the frame at t=0 of the assembled document holds exactly 9
\* direct_speaker nodes, exactly 1 LFE node and exactly one audio_object node
\* for each object of the keyframe map; every audio-object id of a later frame
\* is in the t=0 frame.
ZeroFrameComplete ==
    pc = "written" =>
        \E z \in 1..Len(Frames) :
            /\ Frames[z].time = 0
            /\ Cardinality(NodesOfType(Frames[z], "direct_speaker")) = 9
            /\ Cardinality(NodesOfType(Frames[z], "LFE")) = 1
            /\ AudioObjectIds(Frames[z]) = DictKeys(keyframes)
            /\ Cardinality(NodesOfType(Frames[z], "audio_object")) = Len(keyframes)
            /\ \A f \in 1..Len(Frames) : AudioObjectIds(Frames[f]) \subseteq AudioObjectIds(Frames[z])

\* C4: no frame of the assembled document holds two nodes with the same id.
NoDuplicateIdsInFrame ==
    pc = "written" =>
        \A f \in 1..Len(Frames) :
            \A i, j \in 1..Len(Frames[f].nodes) :
                i # j => Frames[f].nodes[i].id # Frames[f].nodes[j].id

InCube(x) == -1000 <= x /\ x <= 1000

\* C7 (cube invariant): every resolved base position, every placement, every
\* keyframe and every audio_object cart of the document has x, y and z in
\* [-1, 1].
CubeInvariant ==
    /\ \A i \in 1..Len(profiles) :
          InCube(profiles[i].val.base_x) /\ InCube(profiles[i].val.base_y)
              /\ InCube(profiles[i].val.base_z)
    /\ \A i \in 1..Len(placements) : \A c \in 1..3 : InCube(placements[i].val[c])
    /\ \A i \in 1..Len(keyframes) : \A k \in 1..Len(keyframes[i].val) :
          InCube(keyframes[i].val[k].x) /\ InCube(keyframes[i].val[k].y)
              /\ InCube(keyframes[i].val[k].z)
    /\ pc = "written" =>
          \A f \in 1..Len(Frames) : \A n \in NodesOfType(Frames[f], "audio_object") :
              \A c \in 1..3 : InCube(Frames[f].nodes[n].cart[c])

\* a written document of a moving object whose motion left the cube and was
\* clamped onto its face x = 1
CubeInvariantWitness ==
    /\ pc = "written"
    /\ Len(Frames) > 1
    /\ \E f \in 2..Len(Frames) : \E n \in NodesOfType(Frames[f], "audio_object") :
          Frames[f].nodes[n].cart[1] = 1000

Reversed(d) == List([i \in 1..Len(d) |-> d[Len(d) + 1 - i]])

Items(d) == { d[i] : i \in 1..Len(d) }

\* the map d restricted to the key k
Only(d, k) == SelectSeq(d, LAMBDA item : item.key = k)

\* the stem of the manifest that the node belongs to
StemOf(node_id) ==
    SelectSeq(Manifest, LAMBDA stem : \E j \in 1..Len(stem.node_ids) : stem.node_ids[j] = node_id)

\* C23: the profile, the placement and the keyframe sequence of an object are
\* those that the stages compute for this object alone (its stem, its
\* classification, its features, the same style vector and prior table), and
\* the per-object maps are the same when the objects are handed over in the
\* opposite order; the stages after the table was populated leave it and the
\* style vector as they were.
PerObjectIndependence ==
    /\ pc = "stage8" =>
          /\ \A i \in 1..Len(profiles) :
                LET n == profiles[i].key
                IN  /\ Only(profiles, n)
                         = resolve_all_profiles(instrument_profiles, hashKey, StemOf(n),
                                                Only(Classifications, n), style_vector)
                    /\ Only(placements, n)
                         = compute_all_placements(<<>>, <<>>, Only(profiles, n),
                                                  style_vector, 1).placements
                    /\ Only(keyframes, n)
                         = generate_all_gestures(<<>>, arg.duration, hashKey, Only(placements, n),
                                                 Only(profiles, n), Only(MirSummary, n))
          /\ Items(profiles)
                = Items(resolve_all_profiles(instrument_profiles, hashKey, Reversed(Manifest),
                                             Reversed(Classifications), style_vector))
          /\ Items(placements)
                = Items(compute_all_placements(<<>>, <<>>, Reversed(profiles),
                                               style_vector, 1).placements)
          /\ Items(keyframes)
                = Items(generate_all_gestures(<<>>, arg.duration, hashKey, Reversed(placements),
                                              Reversed(profiles), Reversed(MirSummary)))
          /\ DictKeys(keyframes) = DictKeys(profiles)
          /\ instrument_profiles = (IF arg.config = <<>> THEN DefaultProfiles
                                    ELSE load_spf_config(<<>>, arg.config, 1))
          /\ style_vector = map_uv_to_z(arg.u, arg.v)

\* a run with two stems whose objects both move: each has more keyframes than
\* the one at t=0, and the two sequences differ
PerObjectIndependenceWitness ==
    /\ pc = "stage8"
    /\ Len(keyframes) >= 2
    /\ Len(keyframes[1].val) > 1
    /\ Len(keyframes[2].val) > 1
    /\ keyframes[1].val # keyframes[2].val
    /\ profiles[1].val.motion_type # profiles[2].val.motion_type

\* C30: for the style vectors of map_uv_to_z and the profiles of
\* resolve_style_profile, compute_placement never needs to clamp: the base
\* position is in the cube, the style vector in [0, 1], and the clamp log
\* stays empty after every compute_all_placements.
ClampNeverNeeded ==
    /\ \A i \in 1..Len(style_vector) : style_vector[i] \in 0..1000
    /\ \A i \in 1..Len(profiles) :
          /\ profiles[i].val.base_x \in -1000..1000
          /\ profiles[i].val.base_y \in -1000..1000
          /\ profiles[i].val.base_z \in -1000..1000
    /\ clamp_log = <<>>

\* the second process has placed an object that the resolution put near the
\* front wall and above the floor
ClampNeverNeededWitness ==
    /\ run = 2
    /\ pc = "stage7"
    /\ \E i \in 1..Len(profiles) :
          /\ profiles[i].val.base_y > 700
          /\ profiles[i].val.base_z > 0
          /\ DictVal(placements, profiles[i].key)[2] < profiles[i].val.base_y

====
